---- MODULE Spec2Model ----
(***************************************************************************)
(* Radar simulator: aircraft kinematics, conflict detection, radar sweep   *)
(* tracking, command parsing and the simulation registry.                   *)
(*                                                                         *)
(* Numbers.  The program computes in IEEE doubles; the model computes in    *)
(* integers of fixed-point units chosen so that every rate of the program  *)
(* is a whole number of units per physics step:                            *)
(*   time      1 unit = 1/30 s (one physics step, SIM_CONFIG.physicsStep)   *)
(*   heading   1 unit = 1/60 degree                                         *)
(*   speed     1 unit = 1/3 knot                                            *)
(*   altitude  1 unit = 1/9 foot                                            *)
(*   position  1 unit = 1 millimetre                                        *)
(* NaN is one extra value; the Js* operators give it the meaning it has in  *)
(* JavaScript (every comparison with NaN is false, arithmetic yields NaN).  *)
(***************************************************************************)
EXTENDS Integers, Sequences, FiniteSets, TLC

\* ------------------------------------------------------------------ units
TicksPerSec == 30
HdgPerDeg == 60
SpdPerKt == 3
AltPerFt == 9
MmPerKm == 1000000
MmPerDam == 10000

Deg(d) == d * HdgPerDeg
Kts(k) == k * SpdPerKt
Feet(f) == f * AltPerFt
Km(k) == k * MmPerKm
Circle == Deg(360)

\* ------------------------------------------------- JavaScript arithmetic
NaN == -2000000000

IsNaN(a) == a = NaN

Abs(a) == IF a < 0 THEN -a ELSE a

Sign(a) == IF a > 0 THEN 1 ELSE IF a < 0 THEN -1 ELSE 0

Min(a, b) == IF a <= b THEN a ELSE b

Max(a, b) == IF a >= b THEN a ELSE b

\* a % b of JavaScript: the result takes the sign of the dividend
JsMod(a, b) == IF a >= 0 THEN a % b ELSE -((-a) % b)

JsAdd(a, b) == IF IsNaN(a) \/ IsNaN(b) THEN NaN ELSE a + b

JsSub(a, b) == IF IsNaN(a) \/ IsNaN(b) THEN NaN ELSE a - b

JsMul(a, b) == IF IsNaN(a) \/ IsNaN(b) THEN NaN ELSE a * b

JsAbs(a) == IF IsNaN(a) THEN NaN ELSE Abs(a)

JsSign(a) == IF IsNaN(a) THEN NaN ELSE Sign(a)

\* Math.min / Math.max return NaN when either argument is NaN
JsMin(a, b) == IF IsNaN(a) \/ IsNaN(b) THEN NaN ELSE Min(a, b)

JsMax(a, b) == IF IsNaN(a) \/ IsNaN(b) THEN NaN ELSE Max(a, b)

JsLt(a, b) == ~IsNaN(a) /\ ~IsNaN(b) /\ a < b

JsGt(a, b) == ~IsNaN(a) /\ ~IsNaN(b) /\ a > b

\* --------------------------------------------------------- trigonometry
\* Math.sin of an angle given in heading units, times 1000.  Bhaskara's
\* rational approximation on whole degrees: exact at 0, 30, 90, 150, 180
\* degrees, within 0.2% elsewhere, odd and 360-periodic like the sine.
SinHalf(x) == (4 * x * (180 - x) * 1000) \div (40500 - x * (180 - x))

SinMilli(h) ==
  LET x == (h % Circle) \div HdgPerDeg
  IN IF x <= 180 THEN SinHalf(x) ELSE -SinHalf(x - 180)

CosMilli(h) == SinMilli(h + Deg(90))

\* atan(small/large) for 0 <= small <= large, in heading units: the
\* quadratic approximation 45 z + 15.66 z (1 - z) degrees, z = small/large,
\* exact at z = 0 and z = 1.
AtanOctant(small, large) ==
  IF large = 0 THEN 0
  ELSE LET z == (small * 1000) \div large
       IN (45 * HdgPerDeg * z) \div 1000 + (940 * z * (1000 - z)) \div 1000000

\* Math.atan2(y, x) * 180 / Math.PI in heading units, in (-180, 180] degrees;
\* the arguments are lengths in decametres.
Atan2Deg(y, x) ==
  LET ay == Abs(y)
      ax == Abs(x)
      first == IF ay <= ax THEN AtanOctant(ay, ax) ELSE Deg(90) - AtanOctant(ax, ay)
      upper == IF x >= 0 THEN first ELSE Deg(180) - first
  IN IF y >= 0 THEN upper ELSE -upper

\* floor of the square root
RECURSIVE SqrtIter(_, _, _)
SqrtIter(n, lo, hi) ==
  IF lo >= hi THEN lo
  ELSE LET mid == (lo + hi + 1) \div 2
       IN IF mid * mid <= n THEN SqrtIter(n, mid, hi) ELSE SqrtIter(n, lo, mid - 1)

ISqrt(n) == SqrtIter(n, 0, 46340)

\* truncating division (toward zero), as a double rounded to a whole unit
DivT(a, b) == IF a >= 0 THEN a \div b ELSE -((-a) \div b)

\* ------------------------------------------------------------ config.js
\* AIRCRAFT_PROFILES: maxSpeed kt, accel/decel kt/s, maxClimb ft/min,
\* turnRateDegPerSec in tenths of a degree per second (3 and 0.5)
AIRCRAFT_PROFILES ==
  [generic |-> [maxSpeed |-> 600, accel |-> 50, decel |-> 50,
                maxClimb |-> 4000, turnRateTenths |-> 30],
   hypersonic |-> [maxSpeed |-> 15000, accel |-> 2000, decel |-> 2000,
                   maxClimb |-> 15000, turnRateTenths |-> 5]]

trailDotDistanceKm == 2
maxTrailDots == 10
radarSweepRateDps == 90

\* this.profile of an aircraft, set by the constructor of its class
ProfileOf(ac) ==
  IF ac.type = "hypersonic" THEN AIRCRAFT_PROFILES.hypersonic
  ELSE AIRCRAFT_PROFILES.generic

\* ----------------------------------------------------------- physics.js
\* speed (speed units) as millimetres per tick: KNOTS_TO_KMS = 0.000514444
\* km/s per knot, kept to four digits (0.5144 m/s per knot)
MmPerTick(speedKts) == DivT(speedKts * 5144, SpdPerKt * TicksPerSec * 10)

\* the simulation's env.wind, never changed after construction
envWind == [dirDeg |-> 0, speedKts |-> 0]

integratePosition(ac, dt) ==
  IF IsNaN(ac.speedKts) \/ IsNaN(ac.x) \/ IsNaN(ac.y) THEN [x |-> NaN, y |-> NaN]
  ELSE LET v == MmPerTick(ac.speedKts)
           w == MmPerTick(Kts(envWind.speedKts))
           windOn == envWind.speedKts > 0
           dx == DivT(SinMilli(ac.heading) * v, 1000) * dt
                 + (IF windOn THEN DivT(SinMilli(Deg(envWind.dirDeg)) * w, 1000) * dt ELSE 0)
           dy == DivT(CosMilli(ac.heading) * v, 1000) * dt
                 + (IF windOn THEN DivT(CosMilli(Deg(envWind.dirDeg)) * w, 1000) * dt ELSE 0)
       IN [x |-> ac.x + dx, y |-> ac.y + dy]

\* profile.turnRateDegPerSec * dt in heading units
MaxTurn(profile, dt) == (profile.turnRateTenths * HdgPerDeg * dt) \div (10 * TicksPerSec)

\* the difference measured the other way round, which is in (-180, 180]
TurnDelta_HalfOpenAbove(from, to) == Deg(180) - JsMod(from - to + Deg(540), Circle)

\* the signed difference d of computeTurn
TurnDelta(from, to) == JsMod(to - from + Deg(540), Circle) - Deg(180)

\* computeTurn without the final normalisation (+ 360) % 360 of the limited turn
computeTurn_Unwrapped(from, targetHeading, dt, profile) ==
  LET to == JsMod(targetHeading + Circle, Circle)
      d == TurnDelta(from, to)
      maxTurn == MaxTurn(profile, dt)
  IN IF Abs(d) <= maxTurn THEN to
     ELSE from + Sign(d) * maxTurn

\* computeTurn without the test |d| <= maxTurn: it always turns by maxTurn
computeTurn_Overshoot(from, targetHeading, dt, profile) ==
  LET to == JsMod(targetHeading + Circle, Circle)
      d == TurnDelta(from, to)
      maxTurn == MaxTurn(profile, dt)
  IN JsMod(from + Sign(d) * maxTurn + Circle, Circle)

computeTurn(from, targetHeading, dt, profile) ==
  LET to == JsMod(targetHeading + Circle, Circle)
      d == TurnDelta(from, to)
      maxTurn == MaxTurn(profile, dt)
  IN IF Abs(d) <= maxTurn THEN to
     ELSE JsMod(from + Sign(d) * maxTurn + Circle, Circle)

computeSpeedChange(speedKts, targetSpeed, dt, profile) ==
  LET diff == JsSub(targetSpeed, speedKts)
      accel == IF JsGt(diff, 0) THEN profile.accel ELSE profile.decel
      step == (accel * SpdPerKt * dt) \div TicksPerSec
      change == JsMul(JsSign(diff), JsMin(JsAbs(diff), step))
  IN JsAdd(speedKts, change)

computeAltitudeChange(altitudeFt, targetAlt, dt, profile) ==
  LET diff == targetAlt - altitudeFt
      step == (profile.maxClimb * AltPerFt * dt) \div (60 * TicksPerSec)
      change == Sign(diff) * Min(Abs(diff), step)
  IN altitudeFt + change

\* the sign of dx * dx + dy * dy - (1000 m)^2 for dx, dy in millimetres and
\* m in metres, computed in parts so that no product leaves 32 bits
\* (requires m <= 5000)
DistanceCompared(dx, dy, m) ==
  LET adx == Abs(dx)
      ady == Abs(dy)
  IN IF adx > 1000 * m \/ ady > 1000 * m THEN 1
     ELSE LET ax == adx \div 1000
              bx == adx % 1000
              ay == ady \div 1000
              by == ady % 1000
              short == m * m - (ax * ax + ay * ay)
              C == bx * bx + by * by
              E == 2 * (ax * bx + ay * by) + C \div 1000
              c0 == C % 1000
          IN IF short < 0 THEN 1
             ELSE IF short > E \div 1000 + 1 THEN -1
             ELSE IF E > 1000 * short THEN 1
             ELSE IF E < 1000 * short THEN -1
             ELSE IF c0 > 0 THEN 1 ELSE 0

\* distanceKm(p1, p2) > km
FartherThanKm(x1, y1, x2, y2, km) ==
  IF IsNaN(x1) \/ IsNaN(y1) \/ IsNaN(x2) \/ IsNaN(y2) THEN FALSE
  ELSE DistanceCompared(x2 - x1, y2 - y1, km * 1000) = 1

\* bearingTo(p1, p2): navigational bearing, atan2(dx, dy), in [0, 360)
bearingTo(x1, y1, x2, y2) ==
  LET dx == DivT(x2 - x1, MmPerDam)
      dy == DivT(y2 - y1, MmPerDam)
  IN JsMod(Atan2Deg(dx, dy) + Circle, Circle)

\* velocityKmPerSec(ac), in decimetres per tick
velocityKmPerSec(ac) ==
  LET v == MmPerTick(ac.speedKts)
  IN [vx |-> DivT(DivT(SinMilli(ac.heading) * v, 1000), 100),
      vy |-> DivT(DivT(CosMilli(ac.heading) * v, 1000), 100)]

\* detectConflicts' defaults: lookaheadTime s, lateralSepKm, verticalSepFt
lookaheadTime == 300
lateralSepKm == 5
verticalSepFt == 1000

\* floor(100 * n / d) for n >= 0, d > 0, without leaving 32 bits
\* (requires n \div d < 20000000)
Times100Div(n, d) ==
  LET q0 == n \div d
      r0 == n % d
      q1 == (r0 * 10) \div d
      r1 == (r0 * 10) % d
      q2 == (r1 * 10) \div d
  IN [q |-> 100 * q0 + 10 * q1 + q2, exact |-> (r1 * 10) % d = 0]

\* The head of the loop body of detectConflicts for the pair a, b: relative
\* position in decametres, relative velocity in decimetres per tick, so that
\* tca = -(rel . rv) / |rv|^2 is -100 dot / r2 ticks.
RelativeOf(a, b, va, vb) ==
  LET relX == DivT(b.x - a.x, MmPerDam)
      relY == DivT(b.y - a.y, MmPerDam)
      rvx == vb.vx - va.vx
      rvy == vb.vy - va.vy
  IN [relX |-> relX, relY |-> relY, rvx |-> rvx, rvy |-> rvy,
      r2 |-> rvx * rvx + rvy * rvy, dot |-> relX * rvx + relY * rvy,
      altDiff |-> Abs(a.altitudeFt - b.altitudeFt)]

Relative(a, b) == RelativeOf(a, b, velocityKmPerSec(a), velocityKmPerSec(b))

\* tca > lookaheadTime, for r2 > 0 and dot <= 0
Beyond(c) ==
  LET horizon == lookaheadTime * TicksPerSec
      t == Times100Div(-c.dot, c.r2)
  IN \/ (-c.dot) \div c.r2 > horizon \div 100
     \/ t.q > horizon
     \/ (t.q = horizon /\ ~t.exact)

\* distAtCPA < sepKm && altDiff < sepFt, at tca = q / 100 ticks
ViolatesBy(c, q, sepKm, sepFt) ==
  LET caX == c.relX + DivT(c.rvx * q, 100)
      caY == c.relY + DivT(c.rvy * q, 100)
      sep == sepKm * 100
  IN caX * caX + caY * caY < sep * sep /\ c.altDiff < Feet(sepFt)

Violates(c, q) == ViolatesBy(c, q, lateralSepKm, verticalSepFt)

Unflagged == [zero |-> FALSE, past |-> FALSE, beyond |-> FALSE, flagged |-> FALSE]

\* CPA without the test tca < 0: a closest approach in the past counts
CPA_PastCounts(a, b) ==
  IF IsNaN(a.x) \/ IsNaN(a.y) \/ IsNaN(b.x) \/ IsNaN(b.y)
     \/ IsNaN(a.speedKts) \/ IsNaN(b.speedKts)
  THEN Unflagged
  ELSE LET c == Relative(a, b)
       IN IF c.r2 = 0 THEN [Unflagged EXCEPT !.zero = TRUE]
          ELSE IF c.dot > 0
          THEN [Unflagged EXCEPT !.past = TRUE,
                                 !.flagged = Violates(c, -Times100Div(c.dot, c.r2).q)]
          ELSE IF Beyond(c) THEN [Unflagged EXCEPT !.beyond = TRUE]
          ELSE [Unflagged EXCEPT !.flagged = Violates(c, Times100Div(-c.dot, c.r2).q)]

\* One pair of detectConflicts: zero and past/beyond = the pair is passed
\* over by one of the two `continue`s; flagged = it is pushed to out.
CPA(a, b) ==
  IF IsNaN(a.x) \/ IsNaN(a.y) \/ IsNaN(b.x) \/ IsNaN(b.y)
     \/ IsNaN(a.speedKts) \/ IsNaN(b.speedKts)
  THEN \* r2, tca and distAtCPA are NaN: no test on them succeeds
       Unflagged
  ELSE LET c == Relative(a, b)
       IN IF c.r2 = 0 THEN [Unflagged EXCEPT !.zero = TRUE]
          ELSE IF c.dot > 0 THEN [Unflagged EXCEPT !.past = TRUE]
          ELSE IF Beyond(c) THEN [Unflagged EXCEPT !.beyond = TRUE]
          ELSE [Unflagged EXCEPT !.flagged = Violates(c, Times100Div(-c.dot, c.r2).q)]

\* the pairs <<i, j>>, i < j, of list that detectConflicts returns
detectConflicts(list) ==
  {p \in (1..Len(list)) \X (1..Len(list)) :
     p[1] < p[2] /\ CPA(list[p[1]], list[p[2]]).flagged}

\* detectConflicts pushes the pairs in the order of its two loops
RECURSIVE InLoopOrder(_)
InLoopOrder(pairs) ==
  IF pairs = {} THEN <<>>
  ELSE LET first == CHOOSE p \in pairs :
                      \A q \in pairs : p[1] < q[1] \/ (p[1] = q[1] /\ p[2] <= q[2])
       IN <<first>> \o InLoopOrder(pairs \ {first})

\* -------------------------------------------------------------- strings
\* A string is a sequence of one-character strings.
LowerLetters == <<"a", "b", "c", "d", "e", "f", "g", "h", "i", "j", "k", "l", "m",
                  "n", "o", "p", "q", "r", "s", "t", "u", "v", "w", "x", "y", "z">>

UpperLetters == <<"A", "B", "C", "D", "E", "F", "G", "H", "I", "J", "K", "L", "M",
                  "N", "O", "P", "Q", "R", "S", "T", "U", "V", "W", "X", "Y", "Z">>

DigitChars == <<"0", "1", "2", "3", "4", "5", "6", "7", "8", "9">>

IndexIn(seq, c) == IF \E i \in 1..Len(seq) : seq[i] = c
                   THEN CHOOSE i \in 1..Len(seq) : seq[i] = c
                   ELSE 0

UpperChar(c) == IF IndexIn(LowerLetters, c) > 0 THEN UpperLetters[IndexIn(LowerLetters, c)] ELSE c

LowerChar(c) == IF IndexIn(UpperLetters, c) > 0 THEN LowerLetters[IndexIn(UpperLetters, c)] ELSE c

toUpperCase(str) == [i \in 1..Len(str) |-> UpperChar(str[i])]

toLowerCase(str) == [i \in 1..Len(str) |-> LowerChar(str[i])]

IsDigit(c) == IndexIn(DigitChars, c) > 0

DigitValue(c) == IndexIn(DigitChars, c) - 1

\* the pattern without its upper bound: /^\d{lo,}$/.test(str)
AllDigits_NoUpperBound(str, lo, hi) ==
  Len(str) >= lo /\ \A i \in 1..Len(str) : IsDigit(str[i])

\* /^\d{lo,hi}$/.test(str)
AllDigits(str, lo, hi) ==
  Len(str) >= lo /\ Len(str) <= hi /\ \A i \in 1..Len(str) : IsDigit(str[i])

\* String(n) for a natural number n
RECURSIVE String(_)
String(n) == IF n < 10 THEN <<DigitChars[n + 1]>>
             ELSE String(n \div 10) \o <<DigitChars[(n % 10) + 1]>>

\* the value of the longest run of digits of str that starts at i
RECURSIVE DigitRun(_, _, _)
DigitRun(str, i, acc) ==
  IF i > Len(str) \/ ~IsDigit(str[i]) THEN acc
  ELSE DigitRun(str, i + 1, 10 * acc + DigitValue(str[i]))

\* parseFloat(str) on strings of letters, digits and signs (no ".", no
\* exponent, no blank): an optional sign and the longest run of digits that
\* follows it; NaN when there is no digit there.  "INFINITY" in upper case
\* is not the literal Infinity, so it is NaN as well.
parseFloat(str) ==
  LET signed == Len(str) >= 1 /\ str[1] \in {"-", "+"}
      from == IF signed THEN 2 ELSE 1
  IN IF from > Len(str) \/ ~IsDigit(str[from]) THEN NaN
     ELSE IF signed /\ str[1] = "-" THEN -DigitRun(str, from, 0)
     ELSE DigitRun(str, from, 0)

\* ---------------------------------------------------- core/aircraft.js
\* new Aircraft(params) / new HypersonicAircraft(params), as addAircraft
\* builds them (every option given, so no default of the constructor applies)
NewAircraft(id, callsign, type, x, y, heading, speedKts, altitudeFt) ==
  [id |-> id, callsign |-> callsign, type |-> type, x |-> x, y |-> y,
   heading |-> heading, speedKts |-> speedKts, altitudeFt |-> altitudeFt,
   vsFpm |-> 0, trail |-> <<>>, lastTrailDropPos |-> [x |-> x, y |-> y],
   state |-> "cruising",
   target |-> [heading |-> heading, speed |-> speedKts, altitude |-> altitudeFt]]

\* the trail after a position update: a dot is dropped once the aircraft is
\* more than TRAIL_DOT_DISTANCE_KM from the last one, newest first, capped
TrailAfter(ac, pos) ==
  IF FartherThanKm(pos.x, pos.y, ac.lastTrailDropPos.x, ac.lastTrailDropPos.y,
                   trailDotDistanceKm)
  THEN LET grown == <<pos>> \o ac.trail
       IN [trail |-> IF Len(grown) > maxTrailDots THEN SubSeq(grown, 1, Len(grown) - 1)
                     ELSE grown,
           lastTrailDropPos |-> pos]
  ELSE [trail |-> ac.trail, lastTrailDropPos |-> ac.lastTrailDropPos]

\* Aircraft.update(dt, ctx); vsFpm = (alt - old) / (dt / 60) is 0/0 = NaN at dt = 0
AircraftUpdate(ac, dt) ==
  LET profile == ProfileOf(ac)
      h == computeTurn(ac.heading, ac.target.heading, dt, profile)
      spd == computeSpeedChange(ac.speedKts, ac.target.speed, dt, profile)
      alt == computeAltitudeChange(ac.altitudeFt, ac.target.altitude, dt, profile)
      vs == IF dt = 0 THEN NaN
            ELSE DivT((alt - ac.altitudeFt) * 60 * TicksPerSec, dt * AltPerFt)
      turned == [ac EXCEPT !.heading = h, !.speedKts = spd]
      pos == integratePosition(turned, dt)
      tr == TrailAfter(ac, pos)
  IN [ac EXCEPT !.heading = h, !.speedKts = spd, !.altitudeFt = alt, !.vsFpm = vs,
                !.x = pos.x, !.y = pos.y,
                !.trail = tr.trail, !.lastTrailDropPos = tr.lastTrailDropPos]

\* A command {type, params}: value is params.heading / altitude / speed;
\* relative = params.heading is the string 'relative_' + value.
Command(type, value) == [type |-> type, value |-> value, relative |-> FALSE]

\* the case labels of the switch of Aircraft.applyCommand
HandledTypes ==
  {"set_heading", "climb_to", "descend_to", "set_speed", "maintain", "vector", "hold"}

\* Aircraft.applyCommand(command)
AircraftApplyCommand(ac, command) ==
  CASE command.type = "set_heading" ->
         [ac EXCEPT !.target.heading = command.value, !.state = "following_command"]
    [] command.type = "climb_to" ->
         [ac EXCEPT !.target.altitude = command.value, !.state = "climbing"]
    [] command.type = "descend_to" ->
         [ac EXCEPT !.target.altitude = command.value, !.state = "descending"]
    [] command.type = "set_speed" -> [ac EXCEPT !.target.speed = command.value]
    [] command.type = "maintain" -> [ac EXCEPT !.target.altitude = command.value]
    [] command.type = "hold" -> [ac EXCEPT !.state = "holding"]
    [] OTHER -> ac

\* HypersonicAircraft.applyCommand(command)
HypersonicApplyCommand(ac, command) ==
  LET diff == Abs(JsMod(command.value - ac.heading + Deg(540), Circle) - Deg(180))
  IN IF command.type = "set_heading" /\ JsGt(ac.speedKts, Kts(660)) /\ diff > Deg(30)
     THEN [ac EXCEPT !.target.heading =
                       JsMod(ac.heading + (IF command.value > ac.heading
                                           THEN Deg(30) ELSE -Deg(30)), Circle),
                     !.state = "turning_limited"]
     ELSE AircraftApplyCommand(ac, command)

\* ac.applyCommand(command), by the class of ac
applyCommand(ac, command) ==
  IF ac.type = "hypersonic" THEN HypersonicApplyCommand(ac, command)
  ELSE AircraftApplyCommand(ac, command)

\* autoResolveConflict climbing from the target altitude instead of the
\* altitude flown
autoResolveConflict_FromTarget(ac, other) ==
  [ac EXCEPT !.target.heading = JsMod(bearingTo(ac.x, ac.y, other.x, other.y) + Deg(90), Circle),
             !.target.altitude = ac.target.altitude + Feet(2000),
             !.state = "evasive"]

\* Aircraft.autoResolveConflict(conflict), other being the pair's other aircraft
autoResolveConflict(ac, other) ==
  [ac EXCEPT !.target.heading = JsMod(bearingTo(ac.x, ac.y, other.x, other.y) + Deg(90), Circle),
             !.target.altitude = ac.altitudeFt + Feet(2000),
             !.state = "evasive"]

\* --------------------------------------------------------------- state
VARIABLES
  aircraft,        \* Simulation.aircraft: the registry, in insertion order
  selected,        \* Simulation.selected: the id of the selected aircraft, or Null
  nextId,          \* the ids handed out so far (Date.now() + Math.random() is fresh)
  metrics,         \* Simulation.metrics.commands
  radar,           \* Radar: range (km) and sweepAngle (heading units)
  trackedTargets,  \* Radar.trackedTargets: id -> lastSeen and the detected position
  ticks,           \* the number of update() calls so far
  wallClock,       \* performance.now(), in ticks
  fnIn,            \* arguments of a function applied on its own
  fnOut,           \* its result
  isRunning,       \* Simulation.isRunning
  pendingFrames,   \* frame callbacks asked of requestAnimationFrame and not yet run
  lastTime,        \* Simulation.lastTime, or Null
  accumulator,     \* Simulation.accumulator
  now,             \* performance.now(), in the unit of accumulator
  display          \* Display: displayTargets and lastSweepAngle

registryVars == <<aircraft, selected, nextId, metrics>>

radarVars == <<radar, trackedTargets>>

clockVars == <<ticks, wallClock>>

fnVars == <<fnIn, fnOut>>

loopVars == <<isRunning, pendingFrames, lastTime, accumulator, now>>

vars == <<registryVars, radarVars, clockVars, fnVars, loopVars, display>>

Null == 0

\* the indices of list, as a set
Indices(list) == 1..Len(list)

\* ----------------------------------------------------------- command.js
\* A raw command line is given as its whitespace-separated tokens; the
\* empty sequence is the empty (or blank) line.
ParseError(error) == [ok |-> FALSE, callsign |-> <<>>, commands |-> <<>>, error |-> error]

\* the while loop of parseRawCommand over commandParts, from index i
RECURSIVE ParseLoop(_, _, _)
ParseLoop(commandParts, i, commands) ==
  IF i > Len(commandParts) THEN [ok |-> TRUE, commands |-> commands, error |-> ""]
  ELSE
  LET verb == toLowerCase(commandParts[i])
      j == i + 1
  IN CASE verb = <<"c">> ->
            IF j > Len(commandParts)
            THEN [ok |-> FALSE, commands |-> <<>>, error |-> "Expected parameter for 'C'"]
            ELSE IF AllDigits(commandParts[j], 3, 3)
            THEN ParseLoop(commandParts, j + 1,
                   Append(commands, Command("set_heading", Deg(parseFloat(commandParts[j])))))
            ELSE IF AllDigits(commandParts[j], 1, 2)
            THEN ParseLoop(commandParts, j + 1,
                   Append(commands, Command("climb_to", Feet(parseFloat(commandParts[j]) * 1000))))
            ELSE [ok |-> FALSE, commands |-> <<>>, error |-> "Invalid parameter for 'C'"]
       [] verb = <<"s">> ->
            IF j > Len(commandParts)
            THEN [ok |-> FALSE, commands |-> <<>>, error |-> "Expected parameter for 'S'"]
            ELSE ParseLoop(commandParts, j + 1,
                   Append(commands,
                          Command("set_speed", JsMul(parseFloat(commandParts[j]), SpdPerKt))))
       [] verb = <<"h">> ->
            ParseLoop(commandParts, j, Append(commands, Command("hold", 0)))
       [] OTHER -> [ok |-> FALSE, commands |-> <<>>, error |-> "Unknown command verb"]

\* parseRawCommand(raw)
parseRawCommand(raw) ==
  IF raw = <<>> THEN ParseError("Empty command")
  ELSE LET parts == [i \in 1..Len(raw) |-> toUpperCase(raw[i])]
       IN IF Len(parts) < 2 THEN ParseError("Incomplete command")
          ELSE LET r == ParseLoop(SubSeq(parts, 2, Len(parts)), 1, <<>>)
               IN IF r.ok
                  THEN [ok |-> TRUE, callsign |-> parts[1], commands |-> r.commands, error |-> ""]
                  ELSE ParseError(r.error)

\* the while loop of the earlier parseRawCommand (three-viewer.js:370-411):
\* H takes a heading of one to three digits, A an altitude in thousands of
\* feet (one or two digits) or hundreds (three), S a speed; there is no C
RECURSIVE ParseLoop_earlier(_, _, _)
ParseLoop_earlier(commandParts, i, commands) ==
  IF i > Len(commandParts) THEN [ok |-> TRUE, commands |-> commands, error |-> ""]
  ELSE
  LET verb == toLowerCase(commandParts[i])
      j == i + 1
  IN CASE verb = <<"h">> ->
            IF j > Len(commandParts)
            THEN [ok |-> FALSE, commands |-> <<>>, error |-> "Expected parameter for 'H'"]
            ELSE IF ~AllDigits(commandParts[j], 1, 3)
            THEN [ok |-> FALSE, commands |-> <<>>, error |-> "Invalid heading"]
            ELSE ParseLoop_earlier(commandParts, j + 1,
                   Append(commands, Command("set_heading", Deg(parseFloat(commandParts[j])))))
       [] verb = <<"a">> ->
            IF j > Len(commandParts)
            THEN [ok |-> FALSE, commands |-> <<>>, error |-> "Expected parameter for 'A'"]
            ELSE IF ~AllDigits(commandParts[j], 1, 3)
            THEN [ok |-> FALSE, commands |-> <<>>, error |-> "Invalid altitude"]
            ELSE ParseLoop_earlier(commandParts, j + 1,
                   Append(commands,
                          Command("set_altitude",
                                  Feet(parseFloat(commandParts[j])
                                       * (IF Len(commandParts[j]) > 2 THEN 100 ELSE 1000)))))
       [] verb = <<"s">> ->
            IF j > Len(commandParts)
            THEN [ok |-> FALSE, commands |-> <<>>, error |-> "Expected parameter for 'S'"]
            ELSE ParseLoop_earlier(commandParts, j + 1,
                   Append(commands,
                          Command("set_speed", JsMul(parseFloat(commandParts[j]), SpdPerKt))))
       [] OTHER -> [ok |-> FALSE, commands |-> <<>>, error |-> "Unknown command verb"]

\* parseRawCommand(raw) of the earlier revision
parseRawCommand_earlier(raw) ==
  IF raw = <<>> THEN ParseError("Empty command")
  ELSE LET parts == [i \in 1..Len(raw) |-> toUpperCase(raw[i])]
       IN IF Len(parts) < 2 THEN ParseError("Incomplete command")
          ELSE LET r == ParseLoop_earlier(SubSeq(parts, 2, Len(parts)), 1, <<>>)
               IN IF r.ok
                  THEN [ok |-> TRUE, callsign |-> parts[1], commands |-> r.commands, error |-> ""]
                  ELSE ParseError(r.error)

\* Simulation.getAircraftByCallsign(callsign): the index of the first
\* aircraft with that callsign, compared in upper case, or Null
getAircraftByCallsign(list, callsign) ==
  LET hits == {i \in Indices(list) : toUpperCase(list[i].callsign) = toUpperCase(callsign)}
  IN IF hits = {} THEN Null ELSE CHOOSE i \in hits : \A k \in hits : i <= k

\* validateCommand with >= in the place of > in the speed test
validateCommand_AtLimitRefused(command, callsign, list) ==
  LET i == getAircraftByCallsign(list, callsign)
  IN IF i = Null THEN [ok |-> FALSE, reason |-> "unknown callsign"]
     ELSE IF command.type \in {"climb_to", "descend_to"} /\ list[i].type # "hypersonic"
             /\ command.value > Feet(100000)
     THEN [ok |-> FALSE, reason |-> "altitude too high"]
     ELSE IF command.type = "set_speed"
             /\ ~JsLt(command.value, (Kts(ProfileOf(list[i]).maxSpeed) * 12) \div 10)
     THEN [ok |-> FALSE, reason |-> "speed exceeds limits"]
     ELSE [ok |-> TRUE, reason |-> ""]

\* validateCommand without the test of the callsign
validateCommand_AnyCallsign(command, callsign, list) ==
  LET i == getAircraftByCallsign(list, callsign)
  IN IF i = Null THEN [ok |-> TRUE, reason |-> ""]
     ELSE IF command.type \in {"climb_to", "descend_to"} /\ list[i].type # "hypersonic"
             /\ command.value > Feet(100000)
     THEN [ok |-> FALSE, reason |-> "altitude too high"]
     ELSE IF command.type = "set_speed"
             /\ JsGt(command.value, (Kts(ProfileOf(list[i]).maxSpeed) * 12) \div 10)
     THEN [ok |-> FALSE, reason |-> "speed exceeds limits"]
     ELSE [ok |-> TRUE, reason |-> ""]

\* validateCommand(command, sim), command.callsign given apart
validateCommand(command, callsign, list) ==
  LET i == getAircraftByCallsign(list, callsign)
  IN IF i = Null THEN [ok |-> FALSE, reason |-> "unknown callsign"]
     ELSE IF command.type \in {"climb_to", "descend_to"} /\ list[i].type # "hypersonic"
             /\ command.value > Feet(100000)
     THEN [ok |-> FALSE, reason |-> "altitude too high"]
     ELSE IF command.type = "set_speed"
             /\ JsGt(command.value, (Kts(ProfileOf(list[i]).maxSpeed) * 12) \div 10)
     THEN [ok |-> FALSE, reason |-> "speed exceeds limits"]
     ELSE [ok |-> TRUE, reason |-> ""]

\* dispatchCommand(command, sim): the registry after the command is applied
dispatchCommand(command, callsign, list) ==
  LET i == getAircraftByCallsign(list, callsign)
      absolute == IF command.relative
                  THEN [command EXCEPT !.value = JsMod(list[i].heading + command.value + Circle, Circle),
                                       !.relative = FALSE]
                  ELSE command
  IN IF i = Null THEN list
     ELSE [list EXCEPT ![i] = applyCommand(list[i], absolute)]

\* ---------------------------------------------------- main.js: Simulation
\* the square of distanceKm(p1, p2), in square decametres
DistanceSq(x1, y1, x2, y2) ==
  IF IsNaN(x1) \/ IsNaN(y1) \/ IsNaN(x2) \/ IsNaN(y2) THEN NaN
  ELSE LET dx == DivT(x2 - x1, MmPerDam)
           dy == DivT(y2 - y1, MmPerDam)
       IN dx * dx + dy * dy

\* the loop with c.b.autoResolveConflict(c) left out: only the first aircraft
\* of each pair resolves
RECURSIVE ResolveAll_FirstOnly(_, _)
ResolveAll_FirstOnly(list, conflicts) ==
  IF conflicts = <<>> THEN list
  ELSE LET a == Head(conflicts)[1]
           b == Head(conflicts)[2]
           afterA == [list EXCEPT ![a] = autoResolveConflict(list[a], list[b])]
       IN ResolveAll_FirstOnly(afterA, Tail(conflicts))

\* the loop of Simulation.update over the conflicts: both aircraft of each
\* pair resolve, in the order the pairs were found
RECURSIVE ResolveAll(_, _)
ResolveAll(list, conflicts) ==
  IF conflicts = <<>> THEN list
  ELSE LET a == Head(conflicts)[1]
           b == Head(conflicts)[2]
           afterA == [list EXCEPT ![a] = autoResolveConflict(list[a], list[b])]
           afterB == [afterA EXCEPT ![b] = autoResolveConflict(afterA[b], afterA[a])]
       IN ResolveAll(afterB, Tail(conflicts))

\* Radar.updateSweep(deltaTime)
updateSweep(r, dt) ==
  [r EXCEPT !.sweepAngle =
     JsMod(r.sweepAngle + (r.sweepSpeed * HdgPerDeg * dt) \div TicksPerSec, Circle)]

\* Radar.setRange(newRange)
setRange(r, newRange) == [r EXCEPT !.range = JsMax(50, JsMin(500, newRange))]

\* the registry after the physics and conflict part of Simulation.update(dt)
UpdatedAircraft(list, dt) ==
  LET moved == [i \in Indices(list) |-> AircraftUpdate(list[i], dt)]
  IN ResolveAll(moved, InLoopOrder(detectConflicts(moved)))

\* the loop with break in the place of continue: it ends at the first
\* command that fails validation
RECURSIVE RunCommands_StopsAtInvalid(_, _, _, _)
RunCommands_StopsAtInvalid(list, count, commands, callsign) ==
  IF commands = <<>> THEN [aircraft |-> list, commands |-> count]
  ELSE IF validateCommand(Head(commands), callsign, list).ok
       THEN RunCommands_StopsAtInvalid(dispatchCommand(Head(commands), callsign, list),
                                       count + 1, Tail(commands), callsign)
       ELSE [aircraft |-> list, commands |-> count]

\* the for loop of processCommand: validate, then dispatch, each command
RECURSIVE RunCommands(_, _, _, _)
RunCommands(list, count, commands, callsign) ==
  IF commands = <<>> THEN [aircraft |-> list, commands |-> count]
  ELSE IF validateCommand(Head(commands), callsign, list).ok
       THEN RunCommands(dispatchCommand(Head(commands), callsign, list), count + 1,
                        Tail(commands), callsign)
       ELSE RunCommands(list, count, Tail(commands), callsign)

\* Simulation.addAircraft(isHypersonic), the random draws being given
AddAircraft(isHypersonic, pos, heading, speedKts, altitudeFt) ==
  LET idx == Len(aircraft) + 1
      callsign == (IF isHypersonic THEN <<"H", "X">> ELSE <<"A", "C">>) \o String(100 + idx)
      ac == NewAircraft(nextId, callsign, IF isHypersonic THEN "hypersonic" ELSE "generic",
                        pos.x, pos.y, heading, IF isHypersonic THEN Kts(4000) ELSE speedKts,
                        altitudeFt)
  IN /\ aircraft' = Append(aircraft, ac)
     /\ nextId' = nextId + 1
     /\ UNCHANGED <<selected, metrics, radarVars, clockVars, fnVars, loopVars, display>>

\* a removeSelectedOrLast() that pops the last aircraft whatever is selected
RemoveSelectedOrLast_AlwaysLast ==
  /\ aircraft' = IF aircraft = <<>> THEN aircraft ELSE SubSeq(aircraft, 1, Len(aircraft) - 1)
  /\ selected' = Null
  /\ UNCHANGED <<nextId, metrics, radarVars, clockVars, fnVars, loopVars, display>>

\* Simulation.removeSelectedOrLast()
RemoveSelectedOrLast ==
  /\ IF selected # Null
     THEN LET hits == {i \in Indices(aircraft) : aircraft[i].id = selected}
          IN /\ aircraft' = IF hits = {} THEN aircraft
                            ELSE LET idx == CHOOSE i \in hits : TRUE
                                 IN SubSeq(aircraft, 1, idx - 1)
                                    \o SubSeq(aircraft, idx + 1, Len(aircraft))
             /\ selected' = Null
     ELSE /\ aircraft' = IF aircraft = <<>> THEN aircraft
                         ELSE SubSeq(aircraft, 1, Len(aircraft) - 1)
          /\ UNCHANGED selected
  /\ UNCHANGED <<nextId, metrics, radarVars, clockVars, fnVars, loopVars, display>>

\* Simulation.selectByCallsign(callsign)
SelectByCallsign(callsign) ==
  LET i == getAircraftByCallsign(aircraft, callsign)
  IN /\ selected' = IF i # Null THEN aircraft[i].id ELSE selected
     /\ UNCHANGED <<aircraft, nextId, metrics, radarVars, clockVars, fnVars, loopVars, display>>

\* Simulation.selectByPosition(posKm): the nearest aircraft, the first of
\* the nearest ones, if it is less than 5 km away
SelectByPosition(pos) ==
  LET d(i) == DistanceSq(aircraft[i].x, aircraft[i].y, pos.x, pos.y)
      near == {i \in Indices(aircraft) : ~IsNaN(d(i))}
      best == IF near = {} THEN Null
              ELSE CHOOSE i \in near :
                     \A k \in near : d(i) < d(k) \/ (d(i) = d(k) /\ i <= k)
  IN /\ selected' = IF best # Null /\ d(best) < 500 * 500 THEN aircraft[best].id ELSE Null
     /\ UNCHANGED <<aircraft, nextId, metrics, radarVars, clockVars, fnVars, loopVars, display>>

\* Simulation.processCommand(raw)
ProcessCommand(raw) ==
  LET parsed == parseRawCommand(raw)
      done == RunCommands(aircraft, metrics.commands, parsed.commands, parsed.callsign)
  IN /\ aircraft' = IF parsed.ok THEN done.aircraft ELSE aircraft
     /\ metrics' = IF parsed.ok THEN [metrics EXCEPT !.commands = done.commands] ELSE metrics
     /\ UNCHANGED <<selected, nextId, radarVars, clockVars, fnVars, loopVars, display>>

\* what processCommand hands to logMessage for the commands of a line, in order
RECURSIVE CommandMessages(_, _, _)
CommandMessages(list, commands, callsign) ==
  IF commands = <<>> THEN <<>>
  ELSE LET v == validateCommand(Head(commands), callsign, list)
       IN IF v.ok
          THEN CommandMessages(dispatchCommand(Head(commands), callsign, list),
                               Tail(commands), callsign)
          ELSE <<[tag |-> "CMD_INVALID", text |-> v.reason]>>
               \o CommandMessages(list, Tail(commands), callsign)

\* processCommand that, when the line fails to parse, still runs the
\* commands of the longest beginning of the line that does parse
ProcessCommandLogged_RunsParsed(raw) ==
  LET parsed == parseRawCommand(raw)
      prefixes == {n \in 2..Len(raw) : parseRawCommand(SubSeq(raw, 1, n)).ok}
      best == IF parsed.ok \/ prefixes = {} THEN parsed
              ELSE parseRawCommand(SubSeq(raw, 1, CHOOSE n \in prefixes :
                                                     \A k \in prefixes : k <= n))
      done == RunCommands(aircraft, metrics.commands, best.commands, best.callsign)
  IN /\ aircraft' = IF best.ok THEN done.aircraft ELSE aircraft
     /\ metrics' = IF best.ok THEN [metrics EXCEPT !.commands = done.commands] ELSE metrics
     /\ fnIn' = <<"processCommand", raw>>
     /\ fnOut' = IF parsed.ok
                 THEN CommandMessages(aircraft, parsed.commands, parsed.callsign)
                      \o <<[tag |-> "CMD_OK", text |-> ""]>>
                 ELSE <<[tag |-> "CMD_PARSE_ERR", text |-> parsed.error]>>
     /\ UNCHANGED <<selected, nextId, radarVars, clockVars, loopVars, display>>

\* Simulation.processCommand(raw) with its log: fnIn holds the line, fnOut
\* the messages of this call in the order they are logged
ProcessCommandLogged(raw) ==
  LET parsed == parseRawCommand(raw)
      done == RunCommands(aircraft, metrics.commands, parsed.commands, parsed.callsign)
  IN /\ aircraft' = IF parsed.ok THEN done.aircraft ELSE aircraft
     /\ metrics' = IF parsed.ok THEN [metrics EXCEPT !.commands = done.commands] ELSE metrics
     /\ fnIn' = <<"processCommand", raw>>
     /\ fnOut' = IF parsed.ok
                 THEN CommandMessages(aircraft, parsed.commands, parsed.callsign)
                      \o <<[tag |-> "CMD_OK", text |-> ""]>>
                 ELSE <<[tag |-> "CMD_PARSE_ERR", text |-> parsed.error]>>
     /\ UNCHANGED <<selected, nextId, radarVars, clockVars, loopVars, display>>

\* Simulation.update(dt) of main.js: physics, conflicts, sweep
Update(dt) ==
  /\ aircraft' = UpdatedAircraft(aircraft, dt)
  /\ radar' = updateSweep(radar, dt)
  /\ ticks' = ticks + 1
  /\ UNCHANGED <<selected, nextId, metrics, trackedTargets, wallClock, fnVars, loopVars, display>>

\* Aircraft.toDisplayData(): the fields of the aircraft handed to the
\* display; its trail is the aircraft's own array, not a copy, and is left out
toDisplayData(ac) ==
  [id |-> ac.id, callsign |-> ac.callsign, type |-> ac.type, x |-> ac.x, y |-> ac.y,
   heading |-> ac.heading, speedKts |-> ac.speedKts, altitudeFt |-> ac.altitudeFt]

\* { ...liveAc, updatedThisSweep: true }
DisplayTarget(liveAc) ==
  [id |-> liveAc.id, callsign |-> liveAc.callsign, type |-> liveAc.type,
   x |-> liveAc.x, y |-> liveAc.y, heading |-> liveAc.heading,
   speedKts |-> liveAc.speedKts, altitudeFt |-> liveAc.altitudeFt,
   updatedThisSweep |-> TRUE]

\* the forEach of Display.render over aircraftList, from element i on: an
\* aircraft without a target gets one; a target not yet updated in this
\* sweep is replaced once the sweep is less than 10 degrees past the aircraft
RECURSIVE RenderTargets(_, _, _, _)
RenderTargets(targets, aircraftList, i, r) ==
  IF i > Len(aircraftList) THEN targets
  ELSE
  LET liveAc == aircraftList[i]
      known == {t \in targets : t.id = liveAc.id}
      withNew == IF known = {} THEN targets \cup {DisplayTarget(liveAc)} ELSE targets
      currentTarget == CHOOSE t \in withNew : t.id = liveAc.id
      swept == IF IsNaN(liveAc.x) \/ IsNaN(liveAc.y) THEN FALSE
               ELSE JsMod(r.sweepAngle - bearingTo(0, 0, liveAc.x, liveAc.y) + Circle, Circle)
                      < Deg(10)
      after == IF swept /\ ~currentTarget.updatedThisSweep
               THEN {t \in withNew : t.id # liveAc.id} \cup {DisplayTarget(liveAc)}
               ELSE withNew
  IN RenderTargets(after, aircraftList, i + 1, r)

\* Display.render(aircraftList, radar, selected, displayOptions): what it
\* does to displayTargets and lastSweepAngle
DisplayRender(d, aircraftList, r) ==
  LET reset == IF d.lastSweepAngle > Deg(350) /\ r.sweepAngle < Deg(10)
               THEN {[t EXCEPT !.updatedThisSweep = FALSE] : t \in d.displayTargets}
               ELSE d.displayTargets
  IN [displayTargets |-> RenderTargets(reset, aircraftList, 1, r),
      lastSweepAngle |-> r.sweepAngle]

\* Simulation.render(now): the display is given the display data of every
\* aircraft of the registry
SimulationRender(list, d, r) ==
  DisplayRender(d, [i \in Indices(list) |-> toDisplayData(list[i])], r)

\* Simulation.step, SIM_CONFIG.physicsStep, in the unit of now and of the
\* accumulator, which is half a physics step: update(this.step) is Update(1)
step == 2

\* the calls frame() makes, as the log keeps them
UpdateCall == [op |-> "update", dt |-> step]

RenderCall == [op |-> "render", dt |-> 0]

RequestCall == [op |-> "requestAnimationFrame", dt |-> 0]

\* the while loop of frame() with > in the place of >=: a full step is left
\* in the accumulator
RECURSIVE Drain_LeavesFullStep(_, _, _, _)
Drain_LeavesFullStep(list, r, acc, calls) ==
  IF acc > step
  THEN Drain_LeavesFullStep(UpdatedAircraft(list, 1), updateSweep(r, 1), acc - step,
                            Append(calls, UpdateCall))
  ELSE [aircraft |-> list, radar |-> r, accumulator |-> acc, calls |-> calls]

\* the while loop of frame(): update(this.step) as long as the accumulator
\* holds a step
RECURSIVE Drain(_, _, _, _)
Drain(list, r, acc, calls) ==
  IF acc >= step
  THEN Drain(UpdatedAircraft(list, 1), updateSweep(r, 1), acc - step,
             Append(calls, UpdateCall))
  ELSE [aircraft |-> list, radar |-> r, accumulator |-> acc, calls |-> calls]

\* Simulation.frame(now) of main.js, run by the browser elapsed units of
\* time after the last event; the callback is no longer pending, and asks
\* for the next one if the simulation is running
Frame(elapsed) ==
  /\ pendingFrames > 0
  /\ now' = now + elapsed
  /\ fnIn' = <<"frame", now + elapsed>>
  /\ IF ~isRunning
     THEN /\ pendingFrames' = pendingFrames - 1
          /\ fnOut' = <<>>
          /\ UNCHANGED <<aircraft, radar, ticks, lastTime, accumulator, display>>
     ELSE LET dt == (now + elapsed) - (IF lastTime = Null THEN now + elapsed ELSE lastTime)
              ran == Drain(aircraft, radar, accumulator + dt, <<>>)
          IN /\ lastTime' = now + elapsed
             /\ aircraft' = ran.aircraft
             /\ radar' = ran.radar
             /\ accumulator' = ran.accumulator
             /\ ticks' = ticks + Len(ran.calls)
             /\ display' = SimulationRender(ran.aircraft, display, ran.radar)
             /\ pendingFrames' = pendingFrames
             /\ fnOut' = ran.calls \o <<RenderCall, RequestCall>>
  /\ UNCHANGED <<selected, nextId, metrics, trackedTargets, wallClock, isRunning>>

\* the change handler of the radar range input: setRange(parseFloat(value))
SetRange(value) ==
  /\ radar' = setRange(radar, parseFloat(value))
  /\ UNCHANGED <<registryVars, trackedTargets, clockVars, fnVars, loopVars, display>>

\* dispatchCommand(command, sim) called with params.heading = 'relative_<delta>'
DispatchRelative(callsign, delta) ==
  /\ aircraft' = dispatchCommand([type |-> "set_heading", value |-> delta, relative |-> TRUE],
                                 callsign, aircraft)
  /\ UNCHANGED <<selected, nextId, metrics, radarVars, clockVars, fnVars, loopVars, display>>

\* computeTurn applied on its own: fnIn holds the arguments, fnOut the result
ApplyComputeTurn(from, targetHeading, dt, type) ==
  /\ fnIn' = <<from, targetHeading, dt, type>>
  /\ fnOut' = <<computeTurn(from, targetHeading, dt, AIRCRAFT_PROFILES[type])>>
  /\ UNCHANGED <<registryVars, radarVars, clockVars, loopVars, display>>

\* parseRawCommand applied on its own: fnIn holds the line, fnOut the result
ApplyParseRawCommand(raw) ==
  /\ fnIn' = <<"parseRawCommand", raw>>
  /\ fnOut' = <<parseRawCommand(raw)>>
  /\ UNCHANGED <<registryVars, radarVars, clockVars, loopVars, display>>

\* the same for the earlier revision's parseRawCommand
ApplyParseRawCommand_earlier(raw) ==
  /\ fnIn' = <<"parseRawCommand_earlier", raw>>
  /\ fnOut' = <<parseRawCommand_earlier(raw)>>
  /\ UNCHANGED <<registryVars, radarVars, clockVars, loopVars, display>>

\* ------------------------------ modules/: the earlier revision's update
\* Its physics.js measures angles mathematically (0 = east, cos for x) and
\* its radar detects aircraft under the sweep; computeTurn, computeSpeedChange
\* and computeAltitudeChange are the same code as in js/core/physics.js.
sweepRateDps == 30
fovDeg == 30
trailLength == 60

integratePosition_modules(ac, dt) ==
  IF IsNaN(ac.speedKts) \/ IsNaN(ac.x) \/ IsNaN(ac.y) THEN [x |-> NaN, y |-> NaN]
  ELSE LET v == MmPerTick(ac.speedKts)
           w == MmPerTick(Kts(envWind.speedKts))
           dx == DivT(CosMilli(ac.heading) * v, 1000) * dt
                 + DivT(CosMilli(Deg(envWind.dirDeg)) * w, 1000) * dt
           dy == DivT(SinMilli(ac.heading) * v, 1000) * dt
                 + DivT(SinMilli(Deg(envWind.dirDeg)) * w, 1000) * dt
       IN [x |-> ac.x + dx, y |-> ac.y + dy]

velocityKmPerSec_modules(ac) ==
  LET v == MmPerTick(ac.speedKts)
  IN [vx |-> DivT(DivT(CosMilli(ac.heading) * v, 1000), 100),
      vy |-> DivT(DivT(SinMilli(ac.heading) * v, 1000), 100)]

\* bearingTo(p1, p2): atan2(dy, dx), 360 added when negative
bearingTo_modules(x1, y1, x2, y2) ==
  LET dx == DivT(x2 - x1, MmPerDam)
      dy == DivT(y2 - y1, MmPerDam)
      deg == Atan2Deg(dy, dx)
  IN IF deg < 0 THEN deg + Circle ELSE deg

\* one pair of the earlier detectConflicts: tca = 0 when r2 = 0, 300 s of
\* lookahead, 2 km and 1000 ft of separation
CPA_modules(a, b) ==
  IF IsNaN(a.x) \/ IsNaN(a.y) \/ IsNaN(b.x) \/ IsNaN(b.y)
     \/ IsNaN(a.speedKts) \/ IsNaN(b.speedKts)
  THEN Unflagged
  ELSE LET c == RelativeOf(a, b, velocityKmPerSec_modules(a), velocityKmPerSec_modules(b))
       IN IF c.r2 = 0 THEN [Unflagged EXCEPT !.zero = TRUE, !.flagged = ViolatesBy(c, 0, 2, 1000)]
          ELSE IF c.dot > 0 THEN [Unflagged EXCEPT !.past = TRUE]
          ELSE IF Beyond(c) THEN [Unflagged EXCEPT !.beyond = TRUE]
          ELSE [Unflagged EXCEPT
                  !.flagged = ViolatesBy(c, Times100Div(-c.dot, c.r2).q, 2, 1000)]

detectConflicts_modules(list) ==
  {p \in (1..Len(list)) \X (1..Len(list)) :
     p[1] < p[2] /\ CPA_modules(list[p[1]], list[p[2]]).flagged}

autoResolveConflict_modules(ac, other) ==
  [ac EXCEPT !.target.heading =
               JsMod(bearingTo_modules(ac.x, ac.y, other.x, other.y) + Deg(90), Circle),
             !.target.altitude = ac.altitudeFt + Feet(2000),
             !.state = "evasive"]

\* Aircraft.update(dt, ctx) of modules/aircraft.js: the position before the
\* move goes to the front of the trail (its time stamp is left out)
AircraftUpdate_modules(ac, dt) ==
  LET profile == ProfileOf(ac)
      grown == <<[x |-> ac.x, y |-> ac.y]>> \o ac.trail
      h == computeTurn(ac.heading, ac.target.heading, dt, profile)
      spd == computeSpeedChange(ac.speedKts, ac.target.speed, dt, profile)
      alt == computeAltitudeChange(ac.altitudeFt, ac.target.altitude, dt, profile)
      pos == integratePosition_modules([ac EXCEPT !.heading = h, !.speedKts = spd], dt)
  IN [ac EXCEPT !.trail = IF Len(grown) > trailLength
                          THEN SubSeq(grown, 1, Len(grown) - 1) ELSE grown,
                !.heading = h, !.speedKts = spd, !.altitudeFt = alt,
                !.x = pos.x, !.y = pos.y]

RECURSIVE ResolveAll_modules(_, _)
ResolveAll_modules(list, conflicts) ==
  IF conflicts = <<>> THEN list
  ELSE LET a == Head(conflicts)[1]
           b == Head(conflicts)[2]
           afterA == [list EXCEPT ![a] = autoResolveConflict_modules(list[a], list[b])]
           afterB == [afterA EXCEPT ![b] = autoResolveConflict_modules(afterA[b], afterA[a])]
       IN ResolveAll_modules(afterB, Tail(conflicts))

UpdatedAircraft_modules(list, dt) ==
  LET moved == [i \in Indices(list) |-> AircraftUpdate_modules(list[i], dt)]
  IN ResolveAll_modules(moved, InLoopOrder(detectConflicts_modules(moved)))

\* distance <= range and distance < range of detectAircraft, the radar being
\* at the origin: d2 is the squared distance in decametres, range in km
WithinRange(d2, range) ==
  /\ ~IsNaN(d2)
  /\ ~IsNaN(range)
  /\ LET s == ISqrt(d2)
     IN s < range * 100 \/ (s = range * 100 /\ s * s = d2)

InsideRange(d2, range) == ~IsNaN(d2) /\ ~IsNaN(range) /\ ISqrt(d2) < range * 100

\* currentTime - target.lastSeen > 360 / sweepSpeed, the times in ticks
Expired(entry, currentTime, r) ==
  (currentTime - entry.lastSeen) * r.sweepSpeed > 360 * TicksPerSec

\* trackedTargets.set(id, {state, lastSeen}); of state the position is kept
TrackSet(tracked, ac, currentTime) ==
  {e \in tracked : e.id # ac.id}
    \cup {[id |-> ac.id, lastSeen |-> currentTime, x |-> ac.x, y |-> ac.y]}

\* the second loop of detectAircraft, from aircraft i on.  lucky holds the
\* aircraft whose draw of Math.random() is 0, the others draw above 0.98:
\* a lucky one is detected whenever detectProb > 0, the others never.
RECURSIVE DetectLoop(_, _, _, _, _, _)
DetectLoop(r, tracked, list, i, currentTime, lucky) ==
  IF i > Len(list) THEN tracked
  ELSE
  LET ac == list[i]
      d2 == DistanceSq(0, 0, ac.x, ac.y)
      angleToAircraft == Atan2Deg(DivT(ac.y, MmPerDam), DivT(ac.x, MmPerDam))
      angleDiff == Abs(JsMod(angleToAircraft - r.sweepAngle + Deg(180), Circle) - Deg(180))
      after == IF WithinRange(d2, r.range)
               THEN IF angleDiff <= Deg(fovDeg) \div 2 /\ InsideRange(d2, r.range) /\ i \in lucky
                    THEN TrackSet(tracked, ac, currentTime)
                    ELSE tracked
               ELSE {e \in tracked : e.id # ac.id}
  IN DetectLoop(r, after, list, i + 1, currentTime, lucky)

\* detectAircraft that keeps every entry, however long ago it was seen
detectAircraft_NoPrune(r, tracked, list, currentTime, lucky) ==
  DetectLoop(r, tracked, list, 1, currentTime, lucky)

\* Radar.detectAircraft(aircraftList, currentTime): the entries not seen for
\* a full rotation go, then the aircraft under the sweep are detected
detectAircraft(r, tracked, list, currentTime, lucky) ==
  DetectLoop(r, {e \in tracked : ~Expired(e, currentTime, r)}, list, 1, currentTime, lucky)

\* Simulation.update(dt) of modules/: physics, conflicts, sweep, detection
\* at performance.now(), elapsed ticks after the previous call
Update_modules(dt, elapsed, lucky) ==
  LET list == UpdatedAircraft_modules(aircraft, dt)
      r == updateSweep(radar, dt)
  IN /\ aircraft' = list
     /\ radar' = r
     /\ wallClock' = wallClock + elapsed
     /\ trackedTargets' = detectAircraft(r, trackedTargets, list, wallClock + elapsed, lucky)
     /\ ticks' = ticks + 1
     /\ UNCHANGED <<selected, nextId, metrics, fnVars, loopVars, display>>

\* the forEach of the earlier Display.render: the bearing of the aircraft
\* is atan2(-y, x)
RECURSIVE RenderTargets_modules(_, _, _, _)
RenderTargets_modules(targets, aircraftList, i, r) ==
  IF i > Len(aircraftList) THEN targets
  ELSE
  LET liveAc == aircraftList[i]
      known == {t \in targets : t.id = liveAc.id}
      withNew == IF known = {} THEN targets \cup {DisplayTarget(liveAc)} ELSE targets
      currentTarget == CHOOSE t \in withNew : t.id = liveAc.id
      bearing == JsMod(Atan2Deg(-DivT(liveAc.y, MmPerDam), DivT(liveAc.x, MmPerDam)) + Circle,
                       Circle)
      swept == IF IsNaN(liveAc.x) \/ IsNaN(liveAc.y) THEN FALSE
               ELSE JsMod(r.sweepAngle - bearing + Circle, Circle) < Deg(10)
      after == IF swept /\ ~currentTarget.updatedThisSweep
               THEN {t \in withNew : t.id # liveAc.id} \cup {DisplayTarget(liveAc)}
               ELSE withNew
  IN RenderTargets_modules(after, aircraftList, i + 1, r)

\* Display.render of the earlier revision: the targets may be updated again
\* whenever the sweep angle has gone down
DisplayRender_modules(d, aircraftList, r) ==
  LET sweepCycled == r.sweepAngle < d.lastSweepAngle
      reset == IF sweepCycled
               THEN {[t EXCEPT !.updatedThisSweep = FALSE] : t \in d.displayTargets}
               ELSE d.displayTargets
  IN [displayTargets |-> RenderTargets_modules(reset, aircraftList, 1, r),
      lastSweepAngle |-> r.sweepAngle]

\* the while loop of the earlier frame(): update(this.step), which detects
\* at performance.now(), here the time of the frame in ticks; lucky as in
\* DetectLoop, the same aircraft in every update of the frame
RECURSIVE Drain_modules(_, _, _, _, _, _, _)
Drain_modules(list, r, tracked, acc, calls, currentTime, lucky) ==
  IF acc >= step
  THEN LET moved == UpdatedAircraft_modules(list, 1)
           turned == updateSweep(r, 1)
       IN Drain_modules(moved, turned,
                        detectAircraft(turned, tracked, moved, currentTime, lucky),
                        acc - step, Append(calls, UpdateCall), currentTime, lucky)
  ELSE [aircraft |-> list, radar |-> r, trackedTargets |-> tracked,
        accumulator |-> acc, calls |-> calls]

SetRunningCall == [op |-> "setRunning", dt |-> 0]

\* Simulation.start() of the earlier revision
Start ==
  IF isRunning
  THEN UNCHANGED vars
  ELSE /\ isRunning' = TRUE
       /\ lastTime' = now
       /\ pendingFrames' = pendingFrames + 1
       /\ fnIn' = <<"start", now>>
       /\ fnOut' = <<RequestCall, SetRunningCall>>
       /\ UNCHANGED <<registryVars, radarVars, clockVars, accumulator, now, display>>

\* Simulation.pause()
Pause ==
  /\ isRunning' = FALSE
  /\ fnIn' = <<"pause", now>>
  /\ fnOut' = <<SetRunningCall>>
  /\ UNCHANGED <<registryVars, radarVars, clockVars, pendingFrames, lastTime, accumulator,
                 now, display>>

\* Simulation.toggleRunning(), the click handler of the start/pause button
ToggleRunning == IF isRunning THEN Pause ELSE Start

\* a frame() without its first line: it runs whether the simulation is
\* running or not
FrameReturnsAtOnce_Never == FALSE

\* if (!this.isRunning) return;
FrameReturnsAtOnce == ~isRunning

\* Simulation.frame(now) of the earlier revision
Frame_modules(elapsed, lucky) ==
  /\ pendingFrames > 0
  /\ now' = now + elapsed
  /\ fnIn' = <<"frame", now + elapsed>>
  /\ IF FrameReturnsAtOnce
     THEN /\ pendingFrames' = pendingFrames - 1
          /\ fnOut' = <<>>
          /\ UNCHANGED <<aircraft, radarVars, clockVars, lastTime, accumulator, display>>
     ELSE LET dt == (now + elapsed) - (IF lastTime = Null THEN now + elapsed ELSE lastTime)
              ran == Drain_modules(aircraft, radar, trackedTargets, accumulator + dt, <<>>,
                                   (now + elapsed) \div step, lucky)
          IN /\ lastTime' = now + elapsed
             /\ aircraft' = ran.aircraft
             /\ radar' = ran.radar
             /\ trackedTargets' = ran.trackedTargets
             /\ accumulator' = ran.accumulator
             /\ ticks' = ticks + Len(ran.calls)
             /\ wallClock' = (now + elapsed) \div step
             /\ display' = DisplayRender_modules(display, ran.aircraft, ran.radar)
             /\ pendingFrames' = IF isRunning THEN pendingFrames ELSE pendingFrames - 1
             /\ fnOut' = ran.calls \o <<RenderCall>>
                           \o (IF isRunning THEN <<RequestCall>> ELSE <<>>)
  /\ UNCHANGED <<selected, nextId, metrics, isRunning>>

\* ----------------------------------------------------- bounds and inputs
MaxAircraft == 2
MaxAdds == 3
MaxCommands == 1
MaxTicks == 2
MaxFlightTicks == 2
MaxSoloTicks == 8
MaxTrackTicks == 2
MaxTracked == 1
MaxFleet == 2
MaxOrders == 1
MaxClearances == 2
MaxHypersonicTicks == 1
MaxSweepTicks == 360
MaxEvaders == 3
MaxEvasiveTicks == 2
MaxTrailTicks == 510
MaxFramed == 1
MaxFrameAdds == 2
MaxFrameNow == 9
MaxLoopAdds == 1
MaxPending == 3
MaxLoopNow == 7

\* dt of update(): one physics step (what frame() passes) and one second
Dts == {1, TicksPerSec}

\* the draws of addAircraft: positions within +-70 km, headings in [0, 360),
\* speeds in [200, 550) kt, altitudes in [3000, 9500) ft
SpawnPositions == {[x |-> 0, y |-> 0], [x |-> 0, y |-> Km(3)]}

\* one aircraft northbound from the centre, one southbound 3 km north of it
Spawns == {[pos |-> [x |-> 0, y |-> 0], heading |-> Deg(0)],
           [pos |-> [x |-> 0, y |-> Km(3)], heading |-> Deg(180)]}

SpawnSpeeds == {Kts(300)}

SpawnAltitudes == {Feet(5000)}

\* command lines typed into the command input, after the callsign
CommandBodies ==
  {<<<<"S">>, <<"-", "1", "0", "0">>>>,
   <<<<"C">>, <<"9", "9", "9">>>>,
   <<<<"c">>, <<"0", "9", "0">>>>,
   <<<<"C">>, <<"1", "2">>>>}

UnknownCallsign == <<"A", "C", "9", "9", "9">>

Callsigns == {aircraft[i].callsign : i \in Indices(aircraft)}

\* relative heading changes handed to dispatchCommand
RelativeDeltas == {-Deg(1000)}

RadarInit(sweepSpeed) == [range |-> 100, sweepSpeed |-> sweepSpeed, sweepAngle |-> 0]

\* Display constructor: no target on the screen yet
DisplayInit == [displayTargets |-> {}, lastSweepAngle |-> 0]

\* The fields as the constructor's initialisers leave them.  The constructor
\* goes on to init(), whose addAircraft calls are Add steps here; six removals
\* empty the registry again, so every registry built from this state is one
\* the running program can hold.  An id is a fresh value (Date.now() +
\* Math.random() in the code, a counter here) that nothing compares by size.
\* init() ends with start(): lastTime is performance.now(), one unit of time
\* after the time origin, and one frame callback is pending.
Init ==
  /\ aircraft = <<>>
  /\ selected = Null
  /\ nextId = 1
  /\ metrics = [commands |-> 0]
  /\ radar = RadarInit(radarSweepRateDps)
  /\ trackedTargets = {}
  /\ ticks = 0
  /\ wallClock = 0
  /\ fnIn = <<>>
  /\ fnOut = <<>>
  /\ isRunning = TRUE
  /\ pendingFrames = 1
  /\ lastTime = 1
  /\ accumulator = 0
  /\ now = 1
  /\ display = DisplayInit

\* ------------------------------------- Spec: commands, physics, conflicts
Add ==
  /\ Len(aircraft) < MaxAircraft
  /\ \E isHypersonic \in BOOLEAN, spawn \in Spawns,
        speedKts \in SpawnSpeeds, altitudeFt \in SpawnAltitudes :
       AddAircraft(isHypersonic, spawn.pos, spawn.heading, speedKts, altitudeFt)

Submit ==
  /\ metrics.commands < MaxCommands
  /\ \E callsign \in Callsigns \cup {UnknownCallsign}, body \in CommandBodies :
       ProcessCommand(<<callsign>> \o body)

\* a relative turn given to an aircraft that has had no instruction yet
Steer ==
  \E i \in Indices(aircraft), delta \in RelativeDeltas :
    /\ aircraft[i].state = "cruising"
    /\ DispatchRelative(aircraft[i].callsign, delta)

Tick ==
  /\ ticks < MaxTicks
  /\ \E dt \in Dts : Update(dt)

Next == Add \/ Submit \/ Steer \/ Tick

Spec == Init /\ [][Next]_vars

\* -------------------------------- SpecRegistry: adding, removing, selecting
ClickPositions == {[x |-> 0, y |-> Km(1)], [x |-> Km(50), y |-> Km(50)]}

AddToRegistry ==
  /\ Len(aircraft) < MaxAircraft
  /\ nextId <= MaxAdds
  /\ \E isHypersonic \in BOOLEAN, pos \in SpawnPositions :
       AddAircraft(isHypersonic, pos, Deg(0), Kts(300), Feet(5000))

Remove == RemoveSelectedOrLast

SelectCallsign == \E callsign \in Callsigns : SelectByCallsign(callsign)

SelectPosition == \E pos \in ClickPositions : SelectByPosition(pos)

NextRegistry == AddToRegistry \/ Remove \/ SelectCallsign \/ SelectPosition

SpecRegistry == Init /\ [][NextRegistry]_vars

\* ------------------------------------------ SpecFlight: traffic geometry
\* draws of addAircraft that meet head-on, fly side by side, fly apart, pass
\* 4 km abeam, or are a long way from each other
FlightDraws ==
  {[isHypersonic |-> FALSE, pos |-> [x |-> 0, y |-> 0], heading |-> Deg(0), altitudeFt |-> Feet(5000)],
   [isHypersonic |-> FALSE, pos |-> [x |-> 0, y |-> Km(3)], heading |-> Deg(180), altitudeFt |-> Feet(5000)],
   [isHypersonic |-> FALSE, pos |-> [x |-> 0, y |-> Km(3)], heading |-> Deg(0), altitudeFt |-> Feet(5000)],
   [isHypersonic |-> FALSE, pos |-> [x |-> 0, y |-> 0], heading |-> Deg(180), altitudeFt |-> Feet(5000)],
   [isHypersonic |-> TRUE, pos |-> [x |-> Km(4), y |-> Km(3)], heading |-> Deg(180), altitudeFt |-> Feet(5000)],
   [isHypersonic |-> FALSE, pos |-> [x |-> 0, y |-> -Km(60)], heading |-> Deg(0), altitudeFt |-> Feet(5000)],
   [isHypersonic |-> FALSE, pos |-> [x |-> 0, y |-> Km(60)], heading |-> Deg(180), altitudeFt |-> Feet(5000)],
   [isHypersonic |-> FALSE, pos |-> [x |-> 0, y |-> 0], heading |-> Deg(0), altitudeFt |-> Feet(5500)]}

AddTraffic ==
  /\ Len(aircraft) < MaxAircraft
  /\ \E draw \in FlightDraws :
       AddAircraft(draw.isHypersonic, draw.pos, draw.heading, Kts(300), draw.altitudeFt)

Fly ==
  /\ ticks < MaxFlightTicks
  /\ \E dt \in Dts : Update(dt)

NextFlight == AddTraffic \/ Fly

SpecFlight == Init /\ [][NextFlight]_vars

\* ------------------------------------------- SpecTurn: computeTurn alone
\* headings in [0, 360) and the target headings the program produces: the
\* parser's 000..999, (heading + delta + 360) % 360 > -360 of the dispatcher
TurnFroms == {Deg(0), 1, Deg(45), Deg(90), Deg(179), Deg(180), Deg(270), Deg(350), Circle - 1}

TurnTargets ==
  {-Deg(359), -Deg(280), -Deg(30), Deg(0), Deg(10), Deg(90), Deg(180), Deg(181),
   Deg(270), Deg(359), Deg(360), Deg(540), Deg(999)}

TurnDts == {0, 1, TicksPerSec, 10 * TicksPerSec, 100 * TicksPerSec}

Turn ==
  \E from \in TurnFroms, targetHeading \in TurnTargets, dt \in TurnDts,
     type \in {"generic", "hypersonic"} :
    ApplyComputeTurn(from, targetHeading, dt, type)

NextTurn == Turn

SpecTurn == Init /\ [][NextTurn]_vars

\* ---------------------- SpecSolo: one aircraft, instructed, then flown
SoloBodies ==
  {<<<<"S">>, <<"3", "0", "4">>>>,
   <<<<"S">>, <<"-", "1", "0", "0">>>>,
   <<<<"S">>, <<"A", "B", "C">>>>,
   <<<<"C">>, <<"5">>, <<"S">>, <<"2", "9", "0">>>>}

\* whole seconds of flight per update
SoloDts == {TicksPerSec, 3 * TicksPerSec}

\* an aircraft a little below 5000 ft, alone in the sky
AddSolo ==
  /\ Len(aircraft) < 1
  /\ \E isHypersonic \in BOOLEAN :
       AddAircraft(isHypersonic, [x |-> 0, y |-> 0], Deg(0), Kts(300), Feet(4990))

\* the instruction is given before the first tick and then left alone
Instruct ==
  /\ ticks = 0
  /\ metrics.commands = 0
  /\ \E callsign \in Callsigns, body \in SoloBodies :
       ProcessCommand(<<callsign>> \o body)

Advance ==
  /\ ticks < MaxSoloTicks
  /\ \E dt \in SoloDts : Update(dt)

\* update(dt) once the count of ticks is full, followed as long as it leaves
\* every aircraft as it is: only the sweep turns on
Cruise ==
  /\ ticks = MaxSoloTicks
  /\ \E dt \in SoloDts :
       /\ UpdatedAircraft(aircraft, dt) = aircraft
       /\ radar' = updateSweep(radar, dt)
  /\ UNCHANGED <<registryVars, trackedTargets, clockVars, fnVars, loopVars, display>>

NextSolo == AddSolo \/ Instruct \/ Advance \/ Cruise

\* an update() step: only Advance counts ticks, and it can whenever ticks < MaxSoloTicks
Ticking == ticks < MaxSoloTicks /\ ticks' = ticks + 1

\* an update() step after that, of aircraft that have lost their speed to NaN
\* and have nothing left to turn or climb: a Cruise step that turns the sweep
Idling ==
  /\ ticks = MaxSoloTicks
  /\ \A i \in Indices(aircraft) :
       /\ IsNaN(aircraft[i].speedKts)
       /\ IsNaN(aircraft[i].x)
       /\ aircraft[i].heading = aircraft[i].target.heading
       /\ aircraft[i].altitudeFt = aircraft[i].target.altitude
       /\ aircraft[i].vsFpm = 0
  /\ \E dt \in SoloDts : radar' = updateSweep(radar, dt)

\* frame() runs update() and asks for the next animation frame, so ticks go on
SpecSolo == Init /\ [][NextSolo]_vars /\ WF_ticks(Ticking) /\ WF_radar(Idling)

\* ----------------- SpecTrack: the earlier revision's radar and its tracks
\* the radar as the earlier Simulation constructs it; its init() does not
\* start the loop: isRunning is false and no frame callback is pending
InitTrack ==
  /\ aircraft = <<>>
  /\ selected = Null
  /\ nextId = 1
  /\ metrics = [commands |-> 0]
  /\ radar = RadarInit(sweepRateDps)
  /\ trackedTargets = {}
  /\ ticks = 0
  /\ wallClock = 0
  /\ fnIn = <<>>
  /\ fnOut = <<>>
  /\ isRunning = FALSE
  /\ pendingFrames = 0
  /\ lastTime = Null
  /\ accumulator = 0
  /\ now = 1
  /\ display = DisplayInit

\* east of the radar, under the sweep at its start: 70 km out, and just
\* inside 50 km flying outwards
TrackPositions == {[x |-> Km(70), y |-> 0], [x |-> Km(50) - 5 * MmPerDam, y |-> 0]}

\* what the range input holds at a change event; the empty string when cleared
RangeInputs == {<<"3", "0">>, <<"6", "0", "0">>, <<>>}

\* performance.now() between two calls of update(): a tick, a full rotation,
\* a tick more than that
Rotation == (360 * TicksPerSec) \div sweepRateDps

WallSteps == {1, Rotation, Rotation + 1}

AddTracked ==
  /\ nextId <= MaxTracked
  /\ \E pos \in TrackPositions :
       AddAircraft(FALSE, pos, Deg(0), Kts(300), Feet(10000))

RemoveTracked == RemoveSelectedOrLast

ChangeRange == \E value \in RangeInputs : SetRange(value)

Sweep ==
  /\ ticks < MaxTrackTicks
  /\ \E elapsed \in WallSteps, lucky \in SUBSET Indices(aircraft) :
       Update_modules(1, elapsed, lucky)

NextTrack == AddTracked \/ RemoveTracked \/ ChangeRange \/ Sweep

SpecTrack == InitTrack /\ [][NextTrack]_vars

\* --------------------------- SpecLegacy: the earlier revision's traffic
\* draws of addAircraft, headings measured from east as modules/ does: two
\* eastbound side by side 1 km apart, one westbound ahead of them, one
\* eastbound 2000 ft above
LegacyDraws ==
  {[pos |-> [x |-> 0, y |-> 0], heading |-> Deg(0), altitudeFt |-> Feet(5000)],
   [pos |-> [x |-> 0, y |-> Km(1)], heading |-> Deg(0), altitudeFt |-> Feet(5000)],
   [pos |-> [x |-> Km(10), y |-> 0], heading |-> Deg(180), altitudeFt |-> Feet(5000)],
   [pos |-> [x |-> 0, y |-> Km(1)], heading |-> Deg(0), altitudeFt |-> Feet(7000)]}

AddLegacy ==
  /\ Len(aircraft) < MaxAircraft
  /\ \E draw \in LegacyDraws :
       AddAircraft(FALSE, draw.pos, draw.heading, Kts(300), draw.altitudeFt)

FlyLegacy ==
  /\ ticks < MaxFlightTicks
  /\ \E dt \in Dts, lucky \in {{}, Indices(aircraft)} :
       Update_modules(dt, dt, lucky)

NextLegacy == AddLegacy \/ FlyLegacy

SpecLegacy == InitTrack /\ [][NextLegacy]_vars

\* ------------------------------------ SpecParse: parseRawCommand alone
\* tokens of a line after the callsign: the verbs of both revisions in either
\* case and a letter that is no verb; three-digit, two-digit, one-digit and
\* four-digit numbers, a word, a negative number, three digits above 360
ParseVerbs == {<<"H">>, <<"C">>, <<"S">>, <<"A">>, <<"c">>, <<"X">>}

ParseParams ==
  {<<"0", "9", "0">>, <<"1", "2">>, <<"5">>, <<"9", "9", "9", "9">>,
   <<"A", "B", "C">>, <<"-", "1", "0", "0">>, <<"9", "9", "9">>}

\* the empty line, a callsign alone, and a callsign followed by a verb, by a
\* verb and a parameter, or by C 090 or S 12 and a second verb with or
\* without a parameter
ParseLines ==
  LET callsign == <<"A", "C", "1", "0", "1">>
      single == {<<verb>> : verb \in ParseVerbs}
      pair == {<<verb, param>> : verb \in ParseVerbs, param \in ParseParams}
      chained == {p \o q : p \in {<<<<"C">>, <<"0", "9", "0">>>>, <<<<"S">>, <<"1", "2">>>>},
                           q \in single \cup pair}
  IN {<<>>, <<callsign>>} \cup {<<callsign>> \o body : body \in single \cup pair \cup chained}

Parse == \E raw \in ParseLines : ApplyParseRawCommand(raw)

ParseEarlier == \E raw \in ParseLines : ApplyParseRawCommand_earlier(raw)

NextParse == Parse \/ ParseEarlier

SpecParse == Init /\ [][NextParse]_vars

\* --------------------------- SpecCommand: lines typed to a small fleet
\* lines after the callsign: an unknown verb and a missing parameter after a
\* well-formed pair; a chain whose first speed is beyond a generic aircraft's limit; the speeds at and
\* above that limit (120% of 600 kt); an altitude
OrderBodies ==
  {<<<<"C">>, <<"0", "9", "0">>, <<"X">>>>,
   <<<<"S">>, <<"9", "9", "9", "9">>, <<"C">>, <<"0", "4", "0">>, <<"S">>, <<"2", "5", "0">>>>,
   <<<<"S">>, <<"2", "5", "0">>, <<"C">>>>,
   <<<<"S">>, <<"7", "2", "0">>>>,
   <<<<"S">>, <<"7", "2", "1">>>>,
   <<<<"c">>, <<"1", "2">>>>}

\* the callsigns of the fleet as they are and in lower case, and one of no aircraft
OrderCallsigns == Callsigns \cup {toLowerCase(c) : c \in Callsigns} \cup {UnknownCallsign}

\* aircraft 60 km apart along the x axis at one altitude
Enlist ==
  /\ Len(aircraft) < MaxFleet
  /\ \E isHypersonic \in BOOLEAN :
       AddAircraft(isHypersonic, [x |-> Len(aircraft) * Km(60), y |-> 0], Deg(10),
                   Kts(300), Feet(5000))

Order ==
  /\ metrics.commands < MaxOrders
  /\ \E callsign \in OrderCallsigns, body \in OrderBodies :
       ProcessCommandLogged(<<callsign>> \o body)

NextCommand == Enlist \/ Order

SpecCommand == Init /\ [][NextCommand]_vars

\* ------------- SpecHypersonic: one hypersonic aircraft given clearances
\* headings drawn by addAircraft, either side of north
LaunchHeadings == {Deg(10), Deg(350)}

\* lines after the callsign: headings 30, 50 and 70 degrees away from the
\* aircraft's, a speed below 660 kt, an altitude
ClearanceBodies ==
  {<<<<"C">>, <<"0", "4", "0">>>>,
   <<<<"C">>, <<"3", "0", "0">>>>,
   <<<<"C">>, <<"0", "2", "0">>>>,
   <<<<"S">>, <<"6", "0", "0">>>>,
   <<<<"C">>, <<"1", "2">>>>}

Launch ==
  /\ Len(aircraft) < 1
  /\ \E heading \in LaunchHeadings :
       AddAircraft(TRUE, [x |-> 0, y |-> 0], heading, Kts(300), Feet(5000))

Clear ==
  /\ metrics.commands < MaxClearances
  /\ \E callsign \in Callsigns, body \in ClearanceBodies :
       ProcessCommandLogged(<<callsign>> \o body)

\* three seconds of flight
Proceed ==
  /\ ticks < MaxHypersonicTicks
  /\ Update(3 * TicksPerSec)

NextHypersonic == Launch \/ Clear \/ Proceed

SpecHypersonic == Init /\ [][NextHypersonic]_vars

\* ------------- SpecSweep: the earlier revision's radar over a rotation
\* 30 km from the radar: east, north, west and south of it, and east a
\* little to the south
SweepPositions ==
  {[x |-> Km(30), y |-> 0], [x |-> 0, y |-> Km(30)], [x |-> -Km(30), y |-> 0],
   [x |-> 0, y |-> -Km(30)], [x |-> Km(30), y |-> -Km(3)]}

AddSwept ==
  /\ aircraft = <<>>
  /\ ticks = 0
  /\ \E pos \in SweepPositions :
       AddAircraft(FALSE, pos, Deg(0), Kts(300), Feet(10000))

\* update(this.step) of frame(), one physics step of wall-clock time later,
\* every draw of Math.random() being below detectProb
Rotate ==
  /\ ticks < MaxSweepTicks
  /\ Update_modules(1, 1, Indices(aircraft))

NextSweep == AddSwept \/ Rotate

SpecSweep == InitTrack /\ [][NextSweep]_vars

\* ------------------- SpecEvasive: up to three aircraft in conflict, flown
\* draws of addAircraft: two generic aircraft head-on 500 ft apart in
\* altitude, a third crossing westbound at the level of the first, one far
\* to the north flying away, and a hypersonic one head-on to the first
EvaderDraws ==
  {[isHypersonic |-> FALSE, pos |-> [x |-> 0, y |-> 0], heading |-> Deg(0), altitudeFt |-> Feet(5000)],
   [isHypersonic |-> FALSE, pos |-> [x |-> 0, y |-> Km(3)], heading |-> Deg(180), altitudeFt |-> Feet(5500)],
   [isHypersonic |-> FALSE, pos |-> [x |-> Km(3), y |-> 0], heading |-> Deg(270), altitudeFt |-> Feet(5000)],
   [isHypersonic |-> FALSE, pos |-> [x |-> 0, y |-> Km(60)], heading |-> Deg(0), altitudeFt |-> Feet(5000)],
   [isHypersonic |-> TRUE, pos |-> [x |-> 0, y |-> Km(3)], heading |-> Deg(180), altitudeFt |-> Feet(5500)]}

AddEvader ==
  /\ Len(aircraft) < MaxEvaders
  /\ ticks = 0
  /\ \E draw \in EvaderDraws :
       AddAircraft(draw.isHypersonic, draw.pos, draw.heading, Kts(300), draw.altitudeFt)

Evade ==
  /\ ticks < MaxEvasiveTicks
  /\ \E dt \in Dts : Update(dt)

NextEvasive == AddEvader \/ Evade

SpecEvasive == Init /\ [][NextEvasive]_vars

\* ------------------------- SpecTrail: one aircraft flown tick by tick
\* draws of addAircraft at the centre: a generic aircraft northbound at
\* 233 1/3 kt, which is 4 m a tick and exactly 2 km after 500 ticks, and a
\* hypersonic one eastbound, 2 km in under 30 ticks
TrailDraws ==
  {[isHypersonic |-> FALSE, heading |-> Deg(0), speedKts |-> 700],
   [isHypersonic |-> TRUE, heading |-> Deg(90), speedKts |-> Kts(4000)]}

AddTrailed ==
  /\ aircraft = <<>>
  /\ ticks = 0
  /\ \E draw \in TrailDraws :
       AddAircraft(draw.isHypersonic, [x |-> 0, y |-> 0], draw.heading, draw.speedKts,
                   Feet(5000))

\* frame(): update(this.step)
Trail ==
  /\ ticks < MaxTrailTicks
  /\ Update(1)

NextTrail == AddTrailed \/ Trail

SpecTrail == Init /\ [][NextTrail]_vars

\* ------------- SpecFrame: the frame loop of main.js, with its display
\* time between two frame callbacks: half a physics step (a 60 Hz screen),
\* a step, two steps and a half
FrameGaps == {1, 2, 5}

FramePositions == {[x |-> 0, y |-> Km(30)], [x |-> Km(30), y |-> 0]}

AddFramed ==
  /\ Len(aircraft) < MaxFramed
  /\ nextId <= MaxFrameAdds
  /\ \E isHypersonic \in BOOLEAN, pos \in FramePositions :
       AddAircraft(isHypersonic, pos, Deg(0), Kts(300), Feet(5000))

RemoveFramed == RemoveSelectedOrLast

FrameCallback ==
  \E elapsed \in FrameGaps :
    /\ now + elapsed <= MaxFrameNow
    /\ Frame(elapsed)

NextFrame == AddFramed \/ RemoveFramed \/ FrameCallback

SpecFrame == Init /\ [][NextFrame]_vars

\* ------ SpecLoop: the earlier revision's loop, started and paused
\* time between a frame callback and the event before it: none (a second
\* callback of the same animation frame), half a step, a step and a half
LoopGaps == {0, 1, 3}

AddLooped ==
  /\ aircraft = <<>>
  /\ nextId <= MaxLoopAdds
  /\ AddAircraft(FALSE, [x |-> Km(30), y |-> 0], Deg(0), Kts(300), Feet(10000))

StartClicked ==
  /\ pendingFrames < MaxPending
  /\ Start

PauseClicked == Pause

ToggleClicked ==
  /\ pendingFrames < MaxPending
  /\ ToggleRunning

LoopCallback ==
  \E elapsed \in LoopGaps, lucky \in SUBSET Indices(aircraft) :
    /\ now + elapsed <= MaxLoopNow
    /\ Frame_modules(elapsed, lucky)

NextLoop == AddLooped \/ StartClicked \/ PauseClicked \/ ToggleClicked \/ LoopCallback

SpecLoop == InitTrack /\ [][NextLoop]_vars

\* ------------------------------------------------------------ properties
\* C1: no two aircraft of the registry have the same callsign, compared
\* case-insensitively, whatever was added and removed.
CallsignsUnique ==
  \A i, j \in Indices(aircraft) :
    i # j => toUpperCase(aircraft[i].callsign) # toUpperCase(aircraft[j].callsign)

\* C2: no aircraft has a speed below zero or an altitude below zero.
SpeedAltitudeNonNegative ==
  \A i \in Indices(aircraft) :
    /\ ~JsLt(aircraft[i].speedKts, 0)
    /\ ~JsLt(aircraft[i].altitudeFt, 0)

\* C3: every aircraft's heading is in [0, 360), after any ticks, commands
\* (hypersonic partial turns and relative headings among them) and conflict
\* resolutions.
HeadingInRange ==
  \A i \in Indices(aircraft) : aircraft[i].heading \in 0..(Circle - 1)

\* an aircraft that has turned left through north towards a target heading
\* which itself is outside [0, 360)
TurnedThroughNorth ==
  \E i \in Indices(aircraft) :
    /\ aircraft[i].heading > Deg(300)
    /\ aircraft[i].target.heading \notin 0..(Circle - 1)

\* the shortest angular distance between two headings
AngularDistance(a, b) == Min((a - b) % Circle, (b - a) % Circle)

AtTargets(ac) ==
  /\ ~IsNaN(ac.speedKts)
  /\ ac.speedKts = ac.target.speed
  /\ ac.altitudeFt = ac.target.altitude

\* C5: with the targets left alone, repeated ticks of dt > 0 bring speed and
\* altitude exactly to their targets, and from then on they stay there.
EventuallyAtTargets == <>[](\A i \in Indices(aircraft) : AtTargets(aircraft[i]))

\* every target speed that is a number is reached and kept
NumericTargetsReached ==
  <>[](\A i \in Indices(aircraft) :
         IsNaN(aircraft[i].target.speed) \/ AtTargets(aircraft[i]))

\* C6: detectConflicts never flags two aircraft of identical heading and
\* identical speed, however close they are.  The pairs are those the earlier
\* revision's detectConflicts returns, which Simulation.update of modules/
\* resolves.
ParallelNeverFlagged_modules ==
  \A i, j \in Indices(aircraft) :
    (i < j /\ aircraft[i].heading = aircraft[j].heading
           /\ aircraft[i].speedKts = aircraft[j].speedKts)
      => <<i, j>> \notin detectConflicts_modules(aircraft)

\* the same of the detectConflicts of js/core/physics.js, which passes over a
\* pair without relative velocity
ParallelNeverFlagged ==
  \A i, j \in Indices(aircraft) :
    (i < j /\ aircraft[i].heading = aircraft[j].heading
           /\ aircraft[i].speedKts = aircraft[j].speedKts)
      => <<i, j>> \notin detectConflicts(aircraft)

\* a northbound and a southbound aircraft at one altitude, on tracks less
\* than the lateral threshold apart
Reciprocal(n, s) ==
  /\ n.heading = Deg(0)
  /\ s.heading = Deg(180)
  /\ n.altitudeFt = s.altitudeFt
  /\ Abs(DivT(s.x - n.x, MmPerDam)) < lateralSepKm * 100

\* the closest approach of such a pair is now or ahead, within the lookahead:
\* the southbound one is north of the northbound one by no more than the two
\* fly in lookaheadTime seconds
ClosingWithinLookahead(n, s) ==
  LET gap == DivT(s.y - n.y, MmPerDam) * MmPerDam
      closing == MmPerTick(n.speedKts) + MmPerTick(s.speedKts)
  IN gap >= 0 /\ gap <= closing * lookaheadTime * TicksPerSec

\* C7: two aircraft at the same altitude on reciprocal headings whose closest
\* approach is below the lateral threshold are flagged exactly when the time
\* to the closest approach is between 0 and the lookahead; past it, never.
ReciprocalFlaggedUntilCPA ==
  \A i, j \in Indices(aircraft) :
    i < j =>
      /\ Reciprocal(aircraft[i], aircraft[j]) =>
           (<<i, j>> \in detectConflicts(aircraft)
              <=> ClosingWithinLookahead(aircraft[i], aircraft[j]))
      /\ Reciprocal(aircraft[j], aircraft[i]) =>
           (<<i, j>> \in detectConflicts(aircraft)
              <=> ClosingWithinLookahead(aircraft[j], aircraft[i]))

\* a reciprocal pair that a tick has flagged and sent into evasive action,
\* and that is flagged still
ReciprocalFlagged ==
  /\ ticks > 0
  /\ \E i, j \in Indices(aircraft) :
       /\ i < j
       /\ Reciprocal(aircraft[i], aircraft[j]) \/ Reciprocal(aircraft[j], aircraft[i])
       /\ aircraft[i].state = "evasive"
       /\ <<i, j>> \in detectConflicts(aircraft)

\* the aircraft of a track entry is in the registry and farther from the
\* radar than the range
BeyondRange(entry) ==
  \E i \in Indices(aircraft) :
    /\ aircraft[i].id = entry.id
    /\ ~IsNaN(radar.range)
    /\ ~WithinRange(DistanceSq(0, 0, aircraft[i].x, aircraft[i].y), radar.range)

\* C8: the tracked-target map holds no entry of an aircraft that is farther
\* from the radar than the configured range.
NoTrackBeyondRange == \A entry \in trackedTargets : ~BeyondRange(entry)

\* C9: the radar range lies in [50, 500] km, whatever the range input delivered.
RangeClamped == radar.range \in 50..500

\* C10: after every detectAircraft call each entry was seen no longer ago
\* than one rotation, 360 / sweepSpeed seconds; and an entry within that
\* period whose aircraft is in range is still tracked after the call.
TrackPersistence ==
  [][/\ \A entry \in trackedTargets' : ~Expired(entry, wallClock', radar')
     /\ \A entry \in trackedTargets :
          (/\ ~Expired(entry, wallClock', radar')
           /\ \E i \in Indices(aircraft') :
                /\ aircraft'[i].id = entry.id
                /\ WithinRange(DistanceSq(0, 0, aircraft'[i].x, aircraft'[i].y), radar'.range))
            => \E kept \in trackedTargets' : kept.id = entry.id]_vars

\* an entry seen exactly one rotation ago, kept by the call that just ran
TrackAtTheLimit ==
  /\ ticks > 1
  /\ \E entry \in trackedTargets :
       (wallClock - entry.lastSeen) * radar.sweepSpeed = 360 * TicksPerSec

\* a line of three tokens, callsign, verb and parameter, handed to the
\* parseRawCommand named fn; verb is compared in upper case
ParsedPair(fn, verb) ==
  /\ Len(fnIn) = 2
  /\ fnIn[1] = fn
  /\ Len(fnIn[2]) = 3
  /\ toUpperCase(fnIn[2][2]) = verb

\* str is made of digits, between lo and hi of them
IsNumeral(str, lo, hi) ==
  /\ Len(str) \in lo..hi
  /\ \A i \in 1..Len(str) : str[i] \in {"0", "1", "2", "3", "4", "5", "6", "7", "8", "9"}

\* the number a string of digits spells
RECURSIVE Numeral(_)
Numeral(str) ==
  IF str = <<>> THEN 0
  ELSE 10 * Numeral(SubSeq(str, 1, Len(str) - 1)) + DigitValue(str[Len(str)])

\* C11: a line <CALLSIGN> H <ddd> with a three-digit parameter parses to
\* ok:true with exactly one command, set-heading, whose heading is the
\* number the parameter spells.
HeadingVerbParses ==
  (ParsedPair("parseRawCommand", <<"H">>) /\ IsNumeral(fnIn[2][3], 3, 3)) =>
    /\ fnOut[1].ok
    /\ fnOut[1].commands = <<Command("set_heading", Deg(Numeral(fnIn[2][3])))>>

\* the same of the earlier revision's parseRawCommand
HeadingVerbParses_earlier ==
  (ParsedPair("parseRawCommand_earlier", <<"H">>) /\ IsNumeral(fnIn[2][3], 3, 3)) =>
    /\ fnOut[1].ok
    /\ fnOut[1].commands = <<Command("set_heading", Deg(Numeral(fnIn[2][3])))>>

\* H 090 handed to parseRawCommand: refused as a line with an unknown verb
HeadingVerbRefused ==
  /\ ParsedPair("parseRawCommand", <<"H">>)
  /\ fnIn[2][3] = <<"0", "9", "0">>
  /\ ~fnOut[1].ok
  /\ fnOut[1].error = "Unknown command verb"

ProcessCommandStep ==
  /\ Len(fnIn') = 2
  /\ fnIn'[1] = "processCommand"
  /\ nextId' = nextId
  /\ ticks' = ticks

\* the aircraft's targets and behavioural tag are what they were
SameClearance(before, after) ==
  /\ after.target.heading = before.target.heading
  /\ after.target.speed = before.target.speed
  /\ after.target.altitude = before.target.altitude
  /\ after.state = before.state

\* C13: when a line fails to parse, also after well-formed pairs,
\* parseRawCommand returns ok:false with an error and no command list, and
\* processCommand logs the parse error and applies none of the line's
\* commands: the targets and the tag of every aircraft stay as they were.
ParseFailureAppliesNothing ==
  [][ProcessCommandStep =>
       LET parsed == parseRawCommand(fnIn'[2])
       IN ~parsed.ok =>
            /\ parsed.commands = <<>>
            /\ parsed.error # ""
            /\ fnOut' = <<[tag |-> "CMD_PARSE_ERR", text |-> parsed.error]>>
            /\ metrics' = metrics
            /\ Len(aircraft') = Len(aircraft)
            /\ \A i \in Indices(aircraft) : SameClearance(aircraft[i], aircraft'[i])]_vars

\* a line to an aircraft of the fleet refused for the verb after its first pair
ParseFailureLogged ==
  /\ Len(fnIn) = 2
  /\ fnIn[1] = "processCommand"
  /\ getAircraftByCallsign(aircraft, fnIn[2][1]) # Null
  /\ Len(fnIn[2]) = 4
  /\ fnOut = <<[tag |-> "CMD_PARSE_ERR", text |-> "Unknown command verb"]>>

\* ac after the commands of cmds, applied one after the other
RECURSIVE AppliedInOrder(_, _)
AppliedInOrder(ac, cmds) ==
  IF cmds = <<>> THEN ac ELSE AppliedInOrder(applyCommand(ac, Head(cmds)), Tail(cmds))

\* C14: in a chained line to an aircraft of the registry each command that
\* fails validation is reported with its reason and skipped, changing no
\* aircraft, and the commands that pass, those after a failed one too, are
\* dispatched to the aircraft in the order written.
ChainSkipsInvalidOnly ==
  [][ProcessCommandStep =>
       \A parsed \in {parseRawCommand(fnIn'[2])} :
       \A i \in {getAircraftByCallsign(aircraft, parsed.callsign)} :
         (parsed.ok /\ i # Null) =>
           LET Passes(c) == validateCommand(c, parsed.callsign, aircraft).ok
               Fails(c) == ~Passes(c)
               Reported(c) == [tag |-> "CMD_INVALID",
                               text |-> validateCommand(c, parsed.callsign, aircraft).reason]
           IN \A passed \in {SelectSeq(parsed.commands, Passes)} :
              \A failed \in {SelectSeq(parsed.commands, Fails)} :
                /\ fnOut' = [k \in 1..Len(failed) |-> Reported(failed[k])]
                            \o <<[tag |-> "CMD_OK", text |-> ""]>>
                /\ metrics'.commands = metrics.commands + Len(passed)
                /\ aircraft' = [aircraft EXCEPT ![i] = AppliedInOrder(aircraft[i], passed)]]_vars

\* S 9999 C 040 S 250 to a generic aircraft: the first speed is refused, the
\* heading and the second speed are its targets
ChainWentOnAfterInvalid ==
  /\ Len(fnIn) = 2
  /\ fnIn[1] = "processCommand"
  /\ Len(fnIn[2]) = 7
  /\ fnOut = <<[tag |-> "CMD_INVALID", text |-> "speed exceeds limits"],
               [tag |-> "CMD_OK", text |-> ""]>>
  /\ \E i \in Indices(aircraft) :
       /\ aircraft[i].type = "generic"
       /\ aircraft[i].target.heading = Deg(40)
       /\ aircraft[i].target.speed = Kts(250)
       /\ aircraft[i].state = "following_command"

\* the callsign typed is, but for letter case, that of an aircraft of the registry
Registered(list, typed) ==
  \E i \in Indices(list) : toUpperCase(list[i].callsign) = toUpperCase(typed)

\* C15: a line that parses and whose callsign is, compared without regard to
\* case, that of no aircraft has every command rejected with the reason
\* "unknown callsign", none dispatched and no aircraft changed; a callsign
\* that differs from a registered one in letter case only is found.
UnknownCallsignRejected ==
  [][ProcessCommandStep =>
       LET parsed == parseRawCommand(fnIn'[2])
           unknown == [tag |-> "CMD_INVALID", text |-> "unknown callsign"]
       IN parsed.ok =>
            IF Registered(aircraft, fnIn'[2][1])
            THEN \A k \in 1..Len(fnOut') : fnOut'[k] # unknown
            ELSE /\ fnOut' = [k \in 1..Len(parsed.commands) |-> unknown]
                             \o <<[tag |-> "CMD_OK", text |-> ""]>>
                 /\ metrics' = metrics
                 /\ aircraft' = aircraft]_vars

\* the chain of three commands typed to AC999, which no aircraft of the
\* fleet is: three rejections
UnknownCallsignLogged ==
  /\ aircraft # <<>>
  /\ Len(fnIn) = 2
  /\ fnIn[1] = "processCommand"
  /\ fnIn[2][1] = UnknownCallsign
  /\ Len(fnOut) = 4
  /\ \A k \in 1..3 : fnOut[k] = [tag |-> "CMD_INVALID", text |-> "unknown callsign"]

\* a line typed with the callsign in lower case and carried out
LowerCaseCallsignFound ==
  /\ Len(fnIn) = 2
  /\ fnIn[1] = "processCommand"
  /\ fnIn[2][1] \notin Callsigns
  /\ \E i \in Indices(aircraft) :
       /\ toLowerCase(aircraft[i].callsign) = fnIn[2][1]
       /\ aircraft[i].target.altitude = Feet(12000)
       /\ aircraft[i].state = "climbing"

\* C16: a set-speed command whose speed is above 120% of the maximum speed
\* of the aircraft's profile is rejected and leaves the aircraft's target
\* speed as it was; one at or below that limit is accepted and its speed is
\* the aircraft's target speed afterwards.
SpeedLimitValidated ==
  [][ProcessCommandStep =>
       LET parsed == parseRawCommand(fnIn'[2])
           i == getAircraftByCallsign(aircraft, parsed.callsign)
       IN (parsed.ok /\ i # Null /\ Len(parsed.commands) = 1
           /\ parsed.commands[1].type = "set_speed" /\ ~IsNaN(parsed.commands[1].value)) =>
            LET speed == parsed.commands[1].value
                maxSpeed == Kts(AIRCRAFT_PROFILES[aircraft[i].type].maxSpeed)
            IN IF 100 * speed > 120 * maxSpeed
               THEN /\ fnOut'[1] = [tag |-> "CMD_INVALID", text |-> "speed exceeds limits"]
                    /\ aircraft'[i].target.speed = aircraft[i].target.speed
                    /\ aircraft' = aircraft
               ELSE /\ fnOut' = <<[tag |-> "CMD_OK", text |-> ""]>>
                    /\ aircraft'[i].target.speed = speed]_vars

\* S 720 typed to a generic aircraft, whose limit is 720 kt: accepted
SpeedAtLimitAccepted ==
  /\ Len(fnIn) = 2
  /\ fnIn[1] = "processCommand"
  /\ Len(fnIn[2]) = 3
  /\ fnIn[2][3] = <<"7", "2", "0">>
  /\ fnOut = <<[tag |-> "CMD_OK", text |-> ""]>>
  /\ \E i \in Indices(aircraft) :
       /\ aircraft[i].type = "generic"
       /\ toUpperCase(fnIn[2][1]) = aircraft[i].callsign
       /\ aircraft[i].target.speed = Kts(720)

\* S 721 typed to a generic aircraft: refused, the target speed as spawned
SpeedAboveLimitRefused ==
  /\ Len(fnIn) = 2
  /\ fnIn[1] = "processCommand"
  /\ Len(fnIn[2]) = 3
  /\ fnIn[2][3] = <<"7", "2", "1">>
  /\ fnOut[1] = [tag |-> "CMD_INVALID", text |-> "speed exceeds limits"]
  /\ \E i \in Indices(aircraft) :
       /\ toUpperCase(fnIn[2][1]) = aircraft[i].callsign
       /\ aircraft[i].target.speed = Kts(300)

\* the signed shortest heading change from one heading to another, in
\* [-180, 180), cut to 30 degrees either way
ShortestChange(from, to) == ((to - from + Deg(540)) % Circle) - Deg(180)

ClampedChange(from, to) == Max(-Deg(30), Min(Deg(30), ShortestChange(from, to)))

\* a step that hands one set-heading command to a hypersonic aircraft which
\* is faster than 660 kt and would have to turn more than 30 degrees
LimitedTurnStep(i) ==
  LET parsed == parseRawCommand(fnIn'[2])
  IN /\ ProcessCommandStep
     /\ parsed.ok
     /\ i = getAircraftByCallsign(aircraft, parsed.callsign)
     /\ aircraft[i].type = "hypersonic"
     /\ Len(parsed.commands) = 1
     /\ parsed.commands[1].type = "set_heading"
     /\ JsGt(aircraft[i].speedKts, Kts(660))
     /\ Abs(ShortestChange(aircraft[i].heading, parsed.commands[1].value)) > Deg(30)

\* C17: a hypersonic aircraft faster than 660 kt given a heading more than
\* 30 degrees from its own takes as target heading its heading plus the
\* signed shortest change cut to [-30, +30], modulo 360, and the tag
\* turning_limited; given anything else, a heading at most 30 degrees away,
\* or flying at 660 kt or less, it does what a standard aircraft does.
HypersonicTurnsTowardsHeading ==
  [][\A i \in Indices(aircraft) :
       /\ LimitedTurnStep(i) =>
            /\ aircraft'[i].target.heading =
                 (aircraft[i].heading
                  + ClampedChange(aircraft[i].heading,
                                  parseRawCommand(fnIn'[2]).commands[1].value)) % Circle
            /\ aircraft'[i].state = "turning_limited"
       /\ (ProcessCommandStep /\ ~LimitedTurnStep(i)
            /\ parseRawCommand(fnIn'[2]).ok
            /\ Len(parseRawCommand(fnIn'[2]).commands) = 1
            /\ i = getAircraftByCallsign(aircraft, parseRawCommand(fnIn'[2]).callsign)) =>
            aircraft'[i] = AircraftApplyCommand(aircraft[i], parseRawCommand(fnIn'[2]).commands[1])]_vars

\* the second half of C17 alone: outside the limited turn a hypersonic
\* aircraft does what a standard aircraft does
HypersonicOtherwiseStandard ==
  [][\A i \in Indices(aircraft) :
       (ProcessCommandStep /\ ~LimitedTurnStep(i)
        /\ parseRawCommand(fnIn'[2]).ok
        /\ Len(parseRawCommand(fnIn'[2]).commands) = 1
        /\ i = getAircraftByCallsign(aircraft, parseRawCommand(fnIn'[2]).callsign)) =>
         aircraft'[i] = AircraftApplyCommand(aircraft[i], parseRawCommand(fnIn'[2]).commands[1])]_vars

\* every limited turn ends with the tag turning_limited and a target heading
\* 30 degrees from the heading, one way or the other
HypersonicTurnLimited ==
  [][\A i \in Indices(aircraft) :
       LimitedTurnStep(i) =>
         /\ aircraft'[i].state = "turning_limited"
         /\ AngularDistance(aircraft'[i].target.heading, aircraft[i].heading) = Deg(30)]_vars

\* heading 350, cleared to 040, 50 degrees to the right: the target is 320,
\* 30 degrees to the left
HypersonicTurnedAway ==
  /\ Len(fnIn) = 2
  /\ fnIn[1] = "processCommand"
  /\ fnIn[2][3] = <<"0", "4", "0">>
  /\ \E i \in Indices(aircraft) :
       /\ aircraft[i].heading = Deg(350)
       /\ aircraft[i].target.heading = Deg(320)
       /\ aircraft[i].state = "turning_limited"

\* below 660 kt the heading 040 is taken as it is
HypersonicSlowTurnsFreely ==
  /\ Len(fnIn) = 2
  /\ fnIn[1] = "processCommand"
  /\ fnIn[2][3] = <<"0", "4", "0">>
  /\ \E i \in Indices(aircraft) :
       /\ aircraft[i].type = "hypersonic"
       /\ aircraft[i].speedKts = Kts(600)
       /\ aircraft[i].heading = Deg(350)
       /\ aircraft[i].target.heading = Deg(40)
       /\ aircraft[i].state = "following_command"

\* the bearing of an aircraft as detectAircraft measures it, atan2(dy, dx)
\* in degrees, brought into [0, 360)
SweepBearing(ac) == Atan2Deg(DivT(ac.y, MmPerDam), DivT(ac.x, MmPerDam)) % Circle

\* the aircraft is strictly within range and the sweep is at most half the
\* beam width from its bearing
UnderBeam(ac) ==
  /\ InsideRange(DistanceSq(0, 0, ac.x, ac.y), radar.range)
  /\ AngularDistance(SweepBearing(ac), radar.sweepAngle) <= Deg(fovDeg) \div 2

\* C18: after an update in which an aircraft strictly within range was at
\* most 15 degrees of angle from the sweep, and Math.random() was low
\* enough, the map holds a track of the aircraft seen at that time,
\* whatever the aircraft's bearing.
UnderBeamDetected ==
  \A i \in Indices(aircraft) :
    (ticks > 0 /\ UnderBeam(aircraft[i])) =>
      \E e \in trackedTargets : e.id = aircraft[i].id /\ e.lastSeen = wallClock

\* an aircraft whose atan2 angle is below -15 degrees is in no track at any
\* sweep angle of the rotation
SouthNeverTracked ==
  \A i \in Indices(aircraft) :
    SweepBearing(aircraft[i]) \in (Deg(180) + 1)..(Deg(345) - 1) =>
      \A e \in trackedTargets : e.id # aircraft[i].id

\* the sweep points south at an aircraft south of the radar, which is in no track
SouthUnderBeamUntracked ==
  /\ radar.sweepAngle = Deg(270)
  /\ \E i \in Indices(aircraft) :
       /\ aircraft[i].y < 0
       /\ UnderBeam(aircraft[i])
       /\ \A e \in trackedTargets : e.id # aircraft[i].id

\* the sweep points north at an aircraft north of the radar, tracked now
NorthUnderBeamTracked ==
  /\ radar.sweepAngle = Deg(90)
  /\ \E i \in Indices(aircraft) :
       /\ aircraft[i].y > 0
       /\ UnderBeam(aircraft[i])
       /\ \E e \in trackedTargets : e.id = aircraft[i].id /\ e.lastSeen = wallClock

\* d of the computeTurn call recorded in fnIn
RecordedTurnDelta == TurnDelta(fnIn[1], JsMod(fnIn[2] + Circle, Circle))

\* C19: the signed heading difference d of computeTurn lies in (-180, 180]
\* for every current and target heading, and a target exactly 180 degrees
\* away gives d = +180, a clockwise turn.
TurnDeltaUpToPlus180 ==
  Len(fnIn) = 4 =>
    /\ RecordedTurnDelta > -Deg(180)
    /\ RecordedTurnDelta <= Deg(180)
    /\ AngularDistance(fnIn[1], fnIn[2]) = Deg(180) => RecordedTurnDelta = Deg(180)

\* C19, as the code has it: d lies in [-180, 180), and a target exactly 180
\* degrees away gives d = -180, a turn to the left: by the turn rate times
\* dt anticlockwise, or straight to the target if that is 180 degrees or more.
TurnDeltaFromMinus180 ==
  Len(fnIn) = 4 =>
    /\ RecordedTurnDelta >= -Deg(180)
    /\ RecordedTurnDelta < Deg(180)
    /\ AngularDistance(fnIn[1], fnIn[2]) = Deg(180) =>
         /\ RecordedTurnDelta = -Deg(180)
         /\ fnOut[1] = (fnIn[1] - Min(Deg(180), MaxTurn(AIRCRAFT_PROFILES[fnIn[4]], fnIn[3])))
                        % Circle

\* from heading 0 to the target 180, one second at 3 degrees per second: 357
TurnedLeftToOpposite ==
  /\ Len(fnIn) = 4
  /\ fnIn[1] = Deg(0)
  /\ fnIn[2] = Deg(180)
  /\ fnOut[1] = Deg(357)

\* C20: a verb followed by a malformed parameter is a parse error: a line
\* <CALLSIGN> S <token> whose token is not a number makes parseRawCommand
\* return ok:false and no set-speed command.
SpeedTokenMustBeNumber ==
  (ParsedPair("parseRawCommand", <<"S">>) /\ ~IsNumeral(fnIn[2][3], 1, Len(fnIn[2][3]))
   /\ ~(fnIn[2][3][1] \in {"-", "+"}
        /\ IsNumeral(SubSeq(fnIn[2][3], 2, Len(fnIn[2][3])), 1, Len(fnIn[2][3]) - 1))) =>
    /\ ~fnOut[1].ok
    /\ fnOut[1].commands = <<>>

\* the same of the earlier revision's parseRawCommand
SpeedTokenMustBeNumber_earlier ==
  (ParsedPair("parseRawCommand_earlier", <<"S">>) /\ ~IsNumeral(fnIn[2][3], 1, Len(fnIn[2][3]))
   /\ ~(fnIn[2][3][1] \in {"-", "+"}
        /\ IsNumeral(SubSeq(fnIn[2][3], 2, Len(fnIn[2][3])), 1, Len(fnIn[2][3]) - 1))) =>
    /\ ~fnOut[1].ok
    /\ fnOut[1].commands = <<>>

\* S ABC parsed to a set-speed command whose speed is NaN
SpeedTokenTakenAsNaN ==
  /\ ParsedPair("parseRawCommand", <<"S">>)
  /\ fnIn[2][3] = <<"A", "B", "C">>
  /\ fnOut[1].ok
  /\ fnOut[1].commands = <<Command("set_speed", NaN)>>

\* the other verbs' malformed parameters are parse errors: C with a word, a
\* negative number or four digits
ClearanceTokenMustBeNumber ==
  (ParsedPair("parseRawCommand", <<"C">>) /\ ~IsNumeral(fnIn[2][3], 1, 3)) => ~fnOut[1].ok

\* ------------------------------------------------------------------ C21
\* the commands of the line that either parseRawCommand has just returned
ParsedCommands ==
  IF Len(fnIn) = 2 /\ fnIn[1] \in {"parseRawCommand", "parseRawCommand_earlier"}
  THEN fnOut[1].commands
  ELSE <<>>

\* C21: every set-heading command that parseRawCommand emits has a heading
\* between 0 and 360; three digits above 360 (999) yield no set-heading
\* command.
ParsedHeadingInCompass ==
  \A k \in 1..Len(ParsedCommands) :
    ParsedCommands[k].type = "set_heading" =>
      ParsedCommands[k].value \in 0..Deg(360)

\* C 999 handed to the current parseRawCommand: one set-heading command
\* with heading 999
HeadingAboveCompassParsed ==
  /\ ParsedPair("parseRawCommand", <<"C">>)
  /\ fnIn[2][3] = <<"9", "9", "9">>
  /\ fnOut[1].ok
  /\ fnOut[1].commands = <<Command("set_heading", Deg(999))>>

\* H 999 handed to the earlier parseRawCommand: the same
HeadingAboveCompassParsed_earlier ==
  /\ ParsedPair("parseRawCommand_earlier", <<"H">>)
  /\ fnIn[2][3] = <<"9", "9", "9">>
  /\ fnOut[1].ok
  /\ fnOut[1].commands = <<Command("set_heading", Deg(999))>>

\* ------------------------------------------------------------------ C22
\* a step of Simulation.update()
UpdateStep == ticks' = ticks + 1

\* ac has the evasive targets autoResolveConflict sets against other
EvadesFrom(ac, other) ==
  /\ ac.target.heading = (bearingTo(ac.x, ac.y, other.x, other.y) + Deg(90)) % Circle
  /\ ac.target.altitude = ac.altitudeFt + Feet(2000)
  /\ ac.state = "evasive"

\* the indices of the aircraft that flagged pairs have in them
Involved(flagged) == {p[1] : p \in flagged} \cup {p[2] : p \in flagged}

\* the other aircraft of the pair of flagged, among those with aircraft i in
\* them, that the two loops of detectConflicts reach last
LastOther(flagged, i) ==
  LET mine == {p \in flagged : i \in {p[1], p[2]}}
      last == CHOOSE p \in mine :
                \A q \in mine : q[1] < p[1] \/ (q[1] = p[1] /\ q[2] <= p[2])
  IN IF last[1] = i THEN last[2] ELSE last[1]

\* aircraft i has after the step the targets and the tag it had before
KeepsTargets(i) ==
  /\ aircraft'[i].target = aircraft[i].target
  /\ aircraft'[i].state = aircraft[i].state

\* C22 as stated: for each pair flagged in a tick both aircraft end the tick
\* with target heading = bearing to the other + 90 (mod 360), target altitude
\* = own altitude + 2000 ft and the tag evasive, on every tick at which the
\* pair is flagged; aircraft in no flagged pair keep their targets and tag.
EvasiveForEveryPair ==
  [][UpdateStep =>
       \A flagged \in {detectConflicts(aircraft')} :
         /\ \A p \in flagged :
              /\ EvadesFrom(aircraft'[p[1]], aircraft'[p[2]])
              /\ EvadesFrom(aircraft'[p[2]], aircraft'[p[1]])
         /\ \A i \in Indices(aircraft) \ Involved(flagged) : KeepsTargets(i)]_vars

\* C22 amended: every aircraft in a flagged pair ends the tick with the
\* evasive targets against the other aircraft of the last flagged pair it is
\* in, in the order of detection; aircraft in no flagged pair keep their
\* targets and tag.
EvasiveForLastPair ==
  [][UpdateStep =>
       \A flagged \in {detectConflicts(aircraft')} :
         /\ \A i \in Involved(flagged) :
              EvadesFrom(aircraft'[i], aircraft'[LastOther(flagged, i)])
         /\ \A i \in Indices(aircraft) \ Involved(flagged) : KeepsTargets(i)]_vars

\* after a tick the first of three aircraft is in two flagged pairs, with the
\* second and with the third, and evades from the third and not from the
\* second
EvadesFromLastOfTwo ==
  /\ ticks > 0
  /\ Len(aircraft) = 3
  /\ {<<1, 2>>, <<1, 3>>} \subseteq detectConflicts(aircraft)
  /\ EvadesFrom(aircraft[1], aircraft[3])
  /\ ~EvadesFrom(aircraft[1], aircraft[2])

\* after two ticks a pair is flagged again and a third aircraft, in no pair,
\* is still cruising
PairEvadesBystanderCruises ==
  /\ ticks = 2
  /\ Len(aircraft) = 3
  /\ detectConflicts(aircraft) = {<<1, 2>>}
  /\ EvadesFrom(aircraft[1], aircraft[2])
  /\ EvadesFrom(aircraft[2], aircraft[1])
  /\ aircraft[1].altitudeFt > Feet(5000)
  /\ aircraft[3].state = "cruising"

\* ------------------------------------------------------------------ C23
\* the first n elements of seq
FirstN(seq, n) == SubSeq(seq, 1, Min(n, Len(seq)))

\* the distance of the position of after from the last trail dot of before,
\* compared with the threshold: -1 below, 0 equal, 1 above
FromLastDot(before, after) ==
  DistanceCompared(after.x - before.lastTrailDropPos.x,
                   after.y - before.lastTrailDropPos.y, trailDotDistanceKm * 1000)

\* the trail of after is that of before with the position of after put in
\* front and the oldest dropped beyond the capacity
DotAdded(before, after) ==
  after.trail = FirstN(<<[x |-> after.x, y |-> after.y]>> \o before.trail, maxTrailDots)

\* C23: a trail holds at most maxTrailDots positions, newest first, the
\* oldest discarded beyond that; a tick adds the new position exactly when
\* its distance from the last sampled position is at least
\* trailDotDistanceKm, and otherwise leaves the trail unchanged.
TrailSampledAtThreshold ==
  [][UpdateStep =>
       \A i \in Indices(aircraft) :
         /\ Len(aircraft'[i].trail) <= maxTrailDots
         /\ IF FromLastDot(aircraft[i], aircraft'[i]) >= 0
            THEN DotAdded(aircraft[i], aircraft'[i])
            ELSE aircraft'[i].trail = aircraft[i].trail]_vars

\* the same with the distance above the threshold, as the code compares
TrailSampledBeyondThreshold ==
  [][UpdateStep =>
       \A i \in Indices(aircraft) :
         /\ Len(aircraft'[i].trail) <= maxTrailDots
         /\ IF FromLastDot(aircraft[i], aircraft'[i]) > 0
            THEN DotAdded(aircraft[i], aircraft'[i])
            ELSE aircraft'[i].trail = aircraft[i].trail]_vars

\* an aircraft exactly 2 km from where it started, after a tick, and no dot
\* in its trail
AtThresholdWithoutDot ==
  /\ ticks > 0
  /\ Len(aircraft) = 1
  /\ FromLastDot(aircraft[1], aircraft[1]) = 0
  /\ aircraft[1].trail = <<>>

\* a full trail, newest first, after its oldest dot has been discarded: the
\* first dot, 2 km or so from the start, is no longer in it
TrailFullOldestGone ==
  /\ Len(aircraft) = 1
  /\ Len(aircraft[1].trail) = maxTrailDots
  /\ \A k \in 1..(maxTrailDots - 1) : aircraft[1].trail[k].x > aircraft[1].trail[k + 1].x
  /\ aircraft[1].trail[maxTrailDots].x > Km(4)

\* ------------------------------------------------------------------ C24
\* a step that is a run of the frame callback
FrameStep ==
  /\ Len(fnIn') = 2
  /\ fnIn'[1] = "frame"
  /\ now' = fnIn'[2]
  /\ nextId' = nextId
  /\ Len(aircraft') = Len(aircraft)
  /\ isRunning' = isRunning
  /\ selected' = selected

\* the wall time between the last frame, or start(), and this one
ElapsedWallTime == IF lastTime = Null THEN 0 ELSE now' - lastTime

\* C24: a frame callback that runs while the simulation is running makes
\* floor((accumulator + elapsed wall time) / step) calls of update, each with
\* dt = step, then renders, once and after the last update, and leaves
\* 0 <= accumulator < step.
FrameDrainsAccumulator ==
  [][(FrameStep /\ isRunning) =>
       \A n \in {(accumulator + ElapsedWallTime) \div step} :
         /\ ticks' = ticks + n
         /\ Len(fnOut') >= n + 1
         /\ \A k \in 1..n : fnOut'[k] = [op |-> "update", dt |-> step]
         /\ fnOut'[n + 1].op = "render"
         /\ \A k \in (n + 2)..Len(fnOut') : fnOut'[k].op \notin {"update", "render"}
         /\ accumulator' >= 0
         /\ accumulator' < step]_vars

\* a frame two steps and a half after the last, with half a step in the
\* accumulator: three updates, then the render, nothing left
ThreeTicksInAFrame ==
  /\ Len(fnOut) = 5
  /\ fnOut[3].op = "update"
  /\ fnOut[4].op = "render"
  /\ accumulator = 0
  /\ ticks >= 3
  /\ Len(aircraft) = 1
  /\ aircraft[1].y > Km(30)

\* a frame half a step after the last, the accumulator empty: no update,
\* the render only, half a step kept
NoTickInAFrame ==
  /\ Len(fnOut) = 2
  /\ fnOut[1].op = "render"
  /\ accumulator = 1

\* ------------------------------------------------------------------ C27
\* the ids of the aircraft of the registry
RegistryIds == {aircraft[i].id : i \in Indices(aircraft)}

\* the ids of the targets the display renders
DisplayedIds == {t.id : t \in display.displayTargets}

\* C27: after every render the display's displayTargets map holds entries
\* of aircraft of the registry only, so an aircraft removed by
\* removeSelectedOrLast is no longer rendered from the next render on.
RenderedTargetsRegistered ==
  [][(FrameStep /\ isRunning) => DisplayedIds' \subseteq RegistryIds']_vars

\* the registry holds one aircraft at a time here: the second was added
\* after the first was removed, and has been rendered, and the first is
\* still among the targets rendered
RemovedAircraftStillRendered ==
  /\ RegistryIds = {2}
  /\ DisplayedIds = {1, 2}

\* every aircraft of the registry is among the targets after a render
RegisteredTargetsRendered ==
  [][(FrameStep /\ isRunning) => RegistryIds' \subseteq DisplayedIds']_vars

\* C25: while the earlier revision's simulation is stopped no step runs a
\* physics tick or a render (the tick count, the aircraft's motion, the
\* sweep, the tracks and the display stay as they are), and a frame
\* callback that fires then calls nothing and is not scheduled again
MotionOf(list) == [i \in Indices(list) |-> <<list[i].id, list[i].x, list[i].y, list[i].altitudeFt,
                                 list[i].heading, list[i].speedKts>>]

StoppedRunsNothing ==
  [][~isRunning =>
       /\ ticks' = ticks
       /\ radar' = radar
       /\ trackedTargets' = trackedTargets
       /\ display' = display
       /\ accumulator' = accumulator
       /\ Len(aircraft') = Len(aircraft) => MotionOf(aircraft') = MotionOf(aircraft)
       /\ FrameStep => fnOut' = <<>> /\ pendingFrames' = pendingFrames - 1]_vars

\* a callback fired after a pause that followed some ticks, and did nothing
FrameFiredWhileStopped ==
  /\ ~isRunning
  /\ ticks > 0
  /\ Len(fnIn) = 2
  /\ fnIn[1] = "frame"
  /\ fnOut = <<>>

\* C26: at most one frame callback of the earlier revision's loop is
\* scheduled and not yet run
OneFramePending == pendingFrames <= 1

\* a frame ran and scheduled itself again while another callback was pending
TwoLoopChains ==
  /\ isRunning
  /\ pendingFrames = 2
  /\ Len(fnIn) = 2
  /\ fnIn[1] = "frame"
  /\ Len(fnOut) > 0
  /\ fnOut[Len(fnOut)] = RequestCall

\* C28: the selected aircraft is null or an aircraft of the registry, and
\* removeSelectedOrLast() takes out of the registry exactly the selected
\* aircraft if there is one (the selection becomes null), else exactly the
\* aircraft added last, the others staying in their order
LastAdded(list) == CHOOSE id \in {list[i].id : i \in Indices(list)} :
                     \A i \in Indices(list) : list[i].id <= id

Without(list, id) == SelectSeq(list, LAMBDA ac : ac.id # id)

SelectedIsRegistered ==
  /\ [](selected = Null \/ selected \in RegistryIds)
  /\ [][RemoveSelectedOrLast =>
         IF selected # Null
         THEN /\ aircraft' = Without(aircraft, selected)
              /\ Len(aircraft') = Len(aircraft) - 1
              /\ selected' = Null
         ELSE IF aircraft = <<>>
         THEN aircraft' = <<>> /\ selected' = Null
         ELSE /\ aircraft' = Without(aircraft, LastAdded(aircraft))
              /\ Len(aircraft') = Len(aircraft) - 1
              /\ selected' = Null]_vars

\* of two aircraft the first was selected and removed: the second is left
SelectedFirstRemoved ==
  /\ nextId = 3
  /\ Len(aircraft) = 1
  /\ aircraft[1].id = 2
  /\ selected = Null

\* C29: two aircraft of the same type that were a flagged pair in the tick
\* before and are one in this tick, neither of them in another flagged pair,
\* climb in this tick by the same amount, more than nothing: the absolute
\* difference of their altitudes is after the tick what it was before
InOnePairOnly(flagged, p) ==
  \A q \in flagged : q = p \/ {q[1], q[2]} \cap {p[1], p[2]} = {}

Climb(i) == aircraft'[i].altitudeFt - aircraft[i].altitudeFt

EvasiveClimbKeepsSeparation ==
  [][UpdateStep /\ ticks > 0 =>
       \A before \in {detectConflicts(aircraft)}, after \in {detectConflicts(aircraft')} :
         \A p \in before \cap after :
           (/\ aircraft[p[1]].type = aircraft[p[2]].type
            /\ InOnePairOnly(before, p)
            /\ InOnePairOnly(after, p))
           => /\ Climb(p[1]) = Climb(p[2])
              /\ Climb(p[1]) > 0
              /\ Abs(aircraft'[p[1]].altitudeFt - aircraft'[p[2]].altitudeFt)
                 = Abs(aircraft[p[1]].altitudeFt - aircraft[p[2]].altitudeFt)]_vars

\* the same of every pair flagged in both ticks, whatever other pairs its
\* aircraft are in
EvasiveClimbKeepsSeparation_anyPairs ==
  [][UpdateStep /\ ticks > 0 =>
       \A before \in {detectConflicts(aircraft)}, after \in {detectConflicts(aircraft')} :
         \A p \in before \cap after :
           aircraft[p[1]].type = aircraft[p[2]].type => Climb(p[1]) = Climb(p[2])]_vars

\* two generic aircraft 500 ft apart have been a flagged pair for two ticks
\* and have climbed, still 500 ft apart
PairClimbedTogether ==
  /\ ticks = 2
  /\ Len(aircraft) = 2
  /\ aircraft[1].type = aircraft[2].type
  /\ detectConflicts(aircraft) = {<<1, 2>>}
  /\ aircraft[1].state = "evasive"
  /\ aircraft[2].state = "evasive"
  /\ aircraft[1].altitudeFt > Feet(5000)
  /\ aircraft[2].altitudeFt - aircraft[1].altitudeFt = Feet(500)

\* C30: every command that either parseRawCommand emits has a type that the
\* switch of Aircraft.applyCommand has a case for
ParsedTypesHandled ==
  \A k \in 1..Len(ParsedCommands) : ParsedCommands[k].type \in HandledTypes

\* A 12 or A 090 handed to the earlier parseRawCommand: one set_altitude
\* command, which passes validateCommand and which applyCommand leaves
\* without effect on the aircraft
AltitudeCommandWithoutEffect ==
  /\ ParsedPair("parseRawCommand_earlier", <<"A">>)
  /\ fnOut[1].ok
  /\ Len(fnOut[1].commands) = 1
  /\ fnOut[1].commands[1].type = "set_altitude"
  /\ fnOut[1].commands[1].value \in {Feet(12000), Feet(9000)}
  /\ \A ac \in {NewAircraft(1, fnOut[1].callsign, "generic", 0, 0, Deg(0), Kts(300), Feet(5000))} :
       /\ validateCommand(fnOut[1].commands[1], fnOut[1].callsign, <<ac>>).ok
       /\ dispatchCommand(fnOut[1].commands[1], fnOut[1].callsign, <<ac>>) = <<ac>>

\* the commands of the current parseRawCommand all have a case
CurrentParsedTypesHandled ==
  (Len(fnIn) = 2 /\ fnIn[1] = "parseRawCommand") =>
     \A k \in 1..Len(fnOut[1].commands) : fnOut[1].commands[k].type \in HandledTypes

====
